---- MODULE Spec2Model ----
(***************************************************************************)
(* Model of the self-update mechanism: the two updaters                    *)
(*   UpdateChecker (src/src/utils/update_checker.py)  and                  *)
(*   Updater       (src/src/utils/update_installer.py),                    *)
(* the file helpers of src/src/utils/utilities.py, the directory merge and *)
(* the generated .update.bat swap script.                                  *)
(*                                                                         *)
(* Three specifications share the variables:                               *)
(*   Spec        one update session (all four flows),                      *)
(*   SpecMerge   one directory merge over small trees,                     *)
(*   SpecScript  one run of the generated swap script.                     *)
(***************************************************************************)
EXTENDS Integers, Sequences, FiniteSets, TLC

\* ------------------------------------------------------------------------
\* Bounds of the model
\* ------------------------------------------------------------------------

\* a destination file is locked for at most this many consecutive observations
MaxLockPolls == 12

\* at most this many consecutive copy attempts fail for a non-lock reason
MaxFaults == 6

\* longest copy plan of a session
MaxItems == 3

\* largest declared size of a download, in chunks (0: not declared)
MaxDeclared == 2

\* largest number of chunks a download delivers
MaxReceived == 3

\* largest number of files the walk of the extracted tree finds
MaxFound == 3

\* largest max_attempts handed to a wait or a retry wrapper in a direct call
MaxAttemptsArg == 4

\* longest version string
MaxVersionLen == 2

\* ------------------------------------------------------------------------
\* Program constants
\* ------------------------------------------------------------------------

\* wait_for_file_unlock(dst, max_attempts=10, ...) in copy_item
WaitAttempts == 10

\* wait_for_file_unlock(staged_exe, max_attempts=5, ...)
StageWaitAttempts == 5

\* safe_file_operation(..., max_attempts=3, ...)
SafeOpAttempts == 3

\* _copy_file_with_retry(..., max_attempts=5)
CopyRetryAttempts == 5

\* ------------------------------------------------------------------------
\* File kinds and the environment of one file operation
\* ------------------------------------------------------------------------

\* what a path holds: nothing, a directory, or a file with some content
\* ("partial" is a file left truncated by a write that failed midway)
FileContents == {"old", "new", "partial", "stale"}

IsFile(c) == c \in FileContents

Exists(c) == c # "none"

\* The environment of a file operation on one destination path:
\*   lock    the path is locked at observations 1..lock (each is_file_locked
\*           poll and each copy attempt is one observation; they are
\*           separated by the sleeps of the retry loops),
\*   faults  the first `faults` copy attempts fail for another reason,
\*   midwrite whether such a fault strikes after the destination was opened
\*           for writing (leaving it truncated) or before.
Envs == [lock : 0..MaxLockPolls, faults : 0..MaxFaults, midwrite : BOOLEAN]

\* Utilities.is_file_locked at observation t: a path that does not exist is
\* never locked; open(path, 'r+b') fails on a locked file and on a directory.
IsFileLocked(c, env, t) ==
    IF ~Exists(c) THEN FALSE
    ELSE IF c = "dir" THEN TRUE
    ELSE t <= env.lock

\* Utilities.wait_for_file_unlock: the loop over range(max_attempts), first
\* poll at observation t.  Returns whether it saw the file unlocked, and the
\* number of polls and sleeps it made.
RECURSIVE WaitLoop(_, _, _, _, _)
WaitLoop(c, env, t, attempt, maxAttempts) ==
    IF attempt >= maxAttempts
    THEN [unlocked |-> FALSE, polls |-> attempt, sleeps |-> attempt]
    ELSE IF ~IsFileLocked(c, env, t)
         THEN [unlocked |-> TRUE, polls |-> attempt + 1, sleeps |-> attempt]
         ELSE WaitLoop(c, env, t + 1, attempt + 1, maxAttempts)

\* a wait that polls once more than it was asked to
WaitForFileUnlockExtra(c, env, t, maxAttempts) ==
    WaitLoop(c, env, t, 0, maxAttempts + 1)

WaitForFileUnlock(c, env, t, maxAttempts) == WaitLoop(c, env, t, 0, maxAttempts)

\* one attempt of shutil.copy2 onto a destination, attempt number i (from 0),
\* made at observation t: it fails when the destination is locked or when a
\* fault strikes
AttemptFails(c, env, t, i) ==
    (IsFile(c) /\ t <= env.lock) \/ i < env.faults

\* the attempt left the destination truncated
AttemptTruncates(c, env, t, i) ==
    ~(IsFile(c) /\ t <= env.lock) /\ i < env.faults /\ env.midwrite

\* ------------------------------------------------------------------------
\* The retry wrappers
\* ------------------------------------------------------------------------

\* Utilities.safe_file_operation(operation, ..., max_attempts): the loop over
\* range(max_attempts) returns at the first call that does not raise, sleeps
\* after a failed call unless it was the last, and raises last_exception when
\* the loop ends.  calls counts the invocations of the operation.
RECURSIVE SafeLoop(_, _, _, _, _, _)
SafeLoop(c, env, t, attempt, maxAttempts, trunc) ==
    IF attempt >= maxAttempts
    THEN [result |-> "raise", calls |-> attempt,
          sleeps |-> IF attempt = 0 THEN 0 ELSE attempt - 1,
          truncated |-> trunc,
          locked |-> attempt > 0 /\ IsFile(c) /\ t - 1 <= env.lock,
          copied |-> FALSE]
    ELSE IF ~AttemptFails(c, env, t, attempt)
         THEN [result |-> "ok", calls |-> attempt + 1, sleeps |-> attempt,
               truncated |-> FALSE, locked |-> FALSE, copied |-> TRUE]
         ELSE SafeLoop(c, env, t + 1, attempt + 1, maxAttempts,
                       trunc \/ AttemptTruncates(c, env, t, attempt))

\* a wrapper that gives up silently: the last failure is not raised
SafeFileOperationSwallow(c, env, t, maxAttempts) ==
    [SafeLoop(c, env, t, 0, maxAttempts, FALSE) EXCEPT !.result = "ok"]

SafeFileOperation(c, env, t, maxAttempts) ==
    SafeLoop(c, env, t, 0, maxAttempts, FALSE)

\* Updater._copy_file_with_retry(src, dst, max_attempts): the same loop, but
\* the last failure is re-raised inside the loop, so a loop that runs zero
\* times returns normally without having copied anything.
RECURSIVE CopyLoop(_, _, _, _, _, _)
CopyLoop(c, env, t, attempt, maxAttempts, trunc) ==
    IF attempt >= maxAttempts
    THEN [result |-> "ok", calls |-> attempt, sleeps |-> attempt,
          truncated |-> trunc, locked |-> FALSE, copied |-> FALSE]
    ELSE IF ~AttemptFails(c, env, t, attempt)
         THEN [result |-> "ok", calls |-> attempt + 1, sleeps |-> attempt,
               truncated |-> FALSE, locked |-> FALSE, copied |-> TRUE]
         ELSE IF attempt < maxAttempts - 1
              THEN CopyLoop(c, env, t + 1, attempt + 1, maxAttempts,
                            trunc \/ AttemptTruncates(c, env, t, attempt))
              ELSE [result |-> "raise", calls |-> attempt + 1,
                    sleeps |-> attempt,
                    truncated |-> trunc \/ AttemptTruncates(c, env, t, attempt),
                    locked |-> IsFile(c) /\ t <= env.lock,
                    copied |-> FALSE]

\* a retry loop that tries once more than it was asked to
CopyFileWithRetryExtra(c, env, maxAttempts) ==
    CopyLoop(c, env, 1, 0, maxAttempts + 1, FALSE)

CopyFileWithRetry(c, env, maxAttempts) ==
    CopyLoop(c, env, 1, 0, maxAttempts, FALSE)

\* The file branch of UpdateChecker.update_source.copy_item (and the body of
\* its merge loop): when the destination exists and is locked, wait for it;
\* still locked after the wait raises the "is locked and cannot be replaced"
\* exception; otherwise copy through safe_file_operation.
CheckerCopyFile(c, env) ==
    IF Exists(c) /\ IsFileLocked(c, env, 1)
    THEN LET w == WaitForFileUnlock(c, env, 2, WaitAttempts) IN
         IF ~w.unlocked
         THEN [result |-> "locked", truncated |-> FALSE, copied |-> FALSE]
         ELSE LET r == SafeFileOperation(c, env, 2 + w.polls, SafeOpAttempts) IN
              [result |-> IF r.result = "ok" THEN "ok"
                          ELSE IF r.locked THEN "locked" ELSE "raise",
               truncated |-> r.truncated, copied |-> r.copied]
    ELSE LET r == SafeFileOperation(c, env, 2, SafeOpAttempts) IN
         [result |-> IF r.result = "ok" THEN "ok"
                     ELSE IF r.locked THEN "locked" ELSE "raise",
          truncated |-> r.truncated, copied |-> r.copied]

\* The file copy of Updater: _copy_file_with_retry with its default of five
\* attempts; a destination locked through all of them raises PermissionError.
InstallerCopyFile(c, env) ==
    LET r == CopyFileWithRetry(c, env, CopyRetryAttempts) IN
    [result |-> IF r.result = "ok" THEN "ok"
                ELSE IF r.locked THEN "locked" ELSE "raise",
     truncated |-> r.truncated, copied |-> r.copied]

\* ------------------------------------------------------------------------
\* State
\* ------------------------------------------------------------------------

VARIABLES
    \* --- one update session ---
    flow,            \* which update operation runs
    pc,              \* the session's position in its flow
    progress,        \* last value passed to set_progress
    plan,            \* copy-plan entries still to install
    tmpFile,         \* the downloaded archive file exists
    tmpDir,          \* the temporary/extraction directory exists
    exe,             \* content of the live executable's path
    exeOld,          \* content of <exe>.old (Updater.update_exe)
    staged,          \* content of <exe>.new
    script,          \* state of <exe>.update.bat
    restartEnabled,  \* enable_restart was called
    errorLogged,     \* a log line of severity "error" was issued
    failNotified,    \* the "Update failed!" notification was issued
    callerResult,    \* what the caller of the update operation got
    raised,          \* an exception was raised somewhere in the session
    copyRaised,      \* the copy of some item raised
    lockFailed,      \* some destination was still locked after the bounded wait
    stagingFailed,   \* staging <exe>.new failed
    dropped,         \* some set_progress call carried less than the one before
    outOfRange,      \* some set_progress call carried a value outside 0..100
    reported100,     \* some set_progress call carried the value 100
    updaterBackup,   \* <updater script>.backup exists (Updater.update_source)
    layoutFailed,    \* the archive's root was not found in any phase
    rootTouched,     \* the session wrote under the install/project root
    \* --- one directory merge ---
    mImpl,           \* whose merge loop runs
    mS,              \* the source tree
    mD,              \* the destination tree
    mD0,             \* the destination tree before the merge
    mQueue,          \* what os.walk has still to yield
    mState,          \* "walking", "done" or "failed"
    mLockFail,       \* the merge failed on a locked destination
    \* --- one run of the swap script ---
    spc,             \* the script's position
    backup,          \* content of <exe>.backup
    el,              \* the shell's ERRORLEVEL
    appRunning,      \* a process with the executable's image name runs
    launched,        \* start "" "<exe>" was executed
    report,          \* the outcome the script has echoed
    \* --- one call of a helper function ---
    call,            \* the function called and its arguments
    ret,             \* what the call returned or raised
    \* --- the worker thread and the thread of the update window ---
    host,            \* "checker": gui.UpdateWindow, a Toplevel of the
                     \* application; "installer": the tk.Tk() window of main()
    wpc,             \* the worker thread's position
    window,          \* "open" or "destroyed"
    mainloop,        \* window.mainloop(): "running" or "ended"
    process,         \* "alive" or "exited"
    queue,           \* callbacks registered with window.after(0, ...)
    bar,             \* progressbar['value']
    restartBtn,      \* the restart button is enabled
    direct,          \* the worker called Tk other than through window.after
    dialog,          \* the showerror dialog: "none", "open", "dismissed"
    \* --- several invocations of UpdateChecker.update_exe in one process ---
    invocations,     \* how many times update_exe was called
    workers,         \* the position of the worker thread of each call
    overlapStaged    \* a worker began to write <exe>.new while another wrote it

sessionVars == <<flow, pc, progress, plan, tmpFile, tmpDir, exeOld, script,
                 restartEnabled, errorLogged, failNotified, callerResult,
                 raised, copyRaised, lockFailed, stagingFailed,
                 dropped, outOfRange, reported100, updaterBackup, layoutFailed,
                 rootTouched>>

fileVars == <<exe, staged>>

mergeVars == <<mImpl, mS, mD, mD0, mQueue, mState, mLockFail>>

scriptVars == <<spc, backup, el, appRunning, launched, report>>

callVars == <<call, ret>>

\* the variables of everything but a session, a merge and a script run
uiVars == <<host, wpc, window, mainloop, process, queue, bar, restartBtn,
            direct, dialog>>

reentryVars == <<invocations, workers, overlapStaged>>

otherVars == <<callVars, uiVars, reentryVars>>

vars == <<sessionVars, fileVars, mergeVars, scriptVars, otherVars>>

\* ------------------------------------------------------------------------
\* Directory merge: Updater._merge_directory and the merge loop of
\* UpdateChecker.update_source.copy_item
\* ------------------------------------------------------------------------

\* relative paths of the trees: two entries at the top, two below "x"
Nodes == {"x", "y", "x/x", "x/z"}

\* os.path.dirname, "." being the merged directory itself
Parent(n) == IF n \in {"x/x", "x/z"} THEN "x" ELSE "."

\* os.path.basename
Basename(n) ==
    CASE n = "x" -> "x" [] n = "y" -> "y" [] n = "x/x" -> "x" [] OTHER -> "z"

\* os.path.join; "outside" is a path the trees do not track
Join(d, b) ==
    CASE d = "." /\ b \in {"x", "y"} -> b
      [] d = "x" /\ b = "x" -> "x/x"
      [] d = "x" /\ b = "z" -> "x/z"
      [] OTHER -> "outside"

\* an entry exists only inside a directory
WellFormed(T) ==
    /\ \A n \in Nodes : Parent(n) # "." /\ Exists(T[n]) => T[Parent(n)] = "dir"
    /\ \A n \in Nodes \ {"x"} : T[n] # "dir"

SourceTrees == {T \in [Nodes -> {"none", "dir", "new"}] : WellFormed(T)}

DestTrees == {T \in [Nodes -> {"none", "dir", "old"}] : WellFormed(T)}

\* the files os.walk lists for directory d, in listing order
FilesIn(T, d) ==
    LET InDir(n) == Parent(n) = d /\ IsFile(T[n])
        AsCopy(q) == [i \in 1..Len(q) |-> [op |-> "copy", path |-> q[i]]]
    IN AsCopy(SelectSeq(<<"x", "y", "x/x", "x/z">>, InDir))

\* os.walk(src_dir), top-down: each directory (for which the target directory
\* is made), then its files, then its sub-directories
WalkOrder(T) ==
    <<[op |-> "makedirs", path |-> "."]>> \o FilesIn(T, ".")
    \o (IF T["x"] = "dir"
        THEN <<[op |-> "makedirs", path |-> "x"]>> \o FilesIn(T, "x")
        ELSE <<>>)

\* what the destination holds at a path
DestAt(D, n) == IF n = "." THEN "dir" ELSE IF n \in Nodes THEN D[n] ELSE "none"

\* shutil.copy2(src, dst): a dst that is a directory receives the file
\* under the source's base name
Copy2Target(D, n) ==
    IF DestAt(D, n) = "dir" THEN Join(n, Basename(n)) ELSE n

\* the destination after a write of content c at path n
WriteAt(D, n, c) == IF n \in Nodes THEN [D EXCEPT ![n] = c] ELSE D

\* the variables of a specification that does not run a session, a merge or
\* the script hold these values throughout
SessionParked ==
    /\ flow = "none" /\ pc = "Idle" /\ progress = 0 /\ plan = <<>>
    /\ tmpFile = FALSE /\ tmpDir = FALSE
    /\ exeOld = "none" /\ script = "none"
    /\ restartEnabled = FALSE /\ errorLogged = FALSE /\ failNotified = FALSE
    /\ callerResult = "running"
    /\ raised = FALSE /\ copyRaised = FALSE /\ lockFailed = FALSE
    /\ stagingFailed = FALSE
    /\ dropped = FALSE /\ updaterBackup = FALSE /\ layoutFailed = FALSE
    /\ outOfRange = FALSE /\ reported100 = FALSE
    /\ rootTouched = FALSE

FilesParked == exe = "old" /\ staged = "none"

MergeParked ==
    /\ mImpl = "none"
    /\ mS = [n \in Nodes |-> "none"]
    /\ mD = [n \in Nodes |-> "none"]
    /\ mD0 = [n \in Nodes |-> "none"]
    /\ mQueue = <<>>
    /\ mState = "idle"
    /\ mLockFail = FALSE

CallsParked == call = [fn |-> "none"] /\ ret = [done |-> FALSE]

UiParked ==
    /\ host = "none" /\ wpc = "Idle" /\ window = "open" /\ mainloop = "running"
    /\ process = "alive" /\ queue = <<>> /\ bar = 0
    /\ restartBtn = FALSE /\ direct = FALSE /\ dialog = "none"

\* the most calls of update_exe made in one process
MaxInvocations == 3

ReentryParked ==
    /\ invocations = 0
    /\ workers = [w \in 1..MaxInvocations |-> "none"]
    /\ overlapStaged = FALSE

OthersParked == CallsParked /\ UiParked /\ ReentryParked

ScriptParked ==
    /\ spc = "idle" /\ backup = "none" /\ el = 0
    /\ appRunning = FALSE /\ launched = FALSE /\ report = "none"

\* merge(S, D) is entered with the merged directory present on both sides
MergeInit ==
    /\ mImpl \in {"checker", "installer"}
    /\ mS \in SourceTrees
    /\ mD \in DestTrees
    /\ mD0 = mD
    /\ mQueue = WalkOrder(mS)
    /\ mState = "walking"
    /\ mLockFail = FALSE
    /\ SessionParked /\ FilesParked /\ ScriptParked /\ OthersParked

\* os.makedirs(target_dir, exist_ok=True): nothing to do for a directory,
\* creates a missing one, raises FileExistsError when the path is a file
MergeMakeDirs ==
    /\ mState = "walking"
    /\ mQueue # <<>>
    /\ Head(mQueue).op = "makedirs"
    /\ LET d == Head(mQueue).path
           k == DestAt(mD, d)
       IN IF k = "dir"
          THEN /\ mQueue' = Tail(mQueue)
               /\ UNCHANGED <<mD, mState>>
          ELSE IF k = "none"
          THEN /\ mD' = WriteAt(mD, d, "dir")
               /\ mQueue' = Tail(mQueue)
               /\ UNCHANGED mState
          ELSE /\ mState' = "failed"
               /\ UNCHANGED <<mD, mQueue>>
    /\ UNCHANGED <<mImpl, mS, mD0, mLockFail>>
    /\ UNCHANGED <<sessionVars, otherVars, fileVars, scriptVars>>

\* the copy of one file the walk lists.
\* Updater._merge_directory: _copy_file_with_retry(src_file, dst_file).
\* copy_item: the lock check and wait on dst_file, then
\* safe_file_operation(shutil.copy2, src_file, dst_file, max_attempts=3).
MergeFileResult(impl, D, n, env) ==
    IF impl = "installer"
    THEN LET t == Copy2Target(D, n) IN
         [target |-> t, r |-> InstallerCopyFile(DestAt(D, t), env)]
    ELSE [target |-> n, r |-> CheckerCopyFile(DestAt(D, n), env)]

MergeCopyFile ==
    /\ mState = "walking"
    /\ mQueue # <<>>
    /\ Head(mQueue).op = "copy"
    /\ \E env \in Envs :
         LET n == Head(mQueue).path
             res == MergeFileResult(mImpl, mD, n, env)
         IN IF res.r.result = "ok"
            THEN /\ mD' = IF res.r.copied
                          THEN WriteAt(mD, res.target, mS[n]) ELSE mD
                 /\ mQueue' = Tail(mQueue)
                 /\ UNCHANGED <<mState, mLockFail>>
            ELSE /\ mD' = IF res.r.truncated
                          THEN WriteAt(mD, res.target, "partial") ELSE mD
                 /\ mState' = "failed"
                 /\ mLockFail' = (res.r.result = "locked")
                 /\ UNCHANGED mQueue
    /\ UNCHANGED <<mImpl, mS, mD0>>
    /\ UNCHANGED <<sessionVars, otherVars, fileVars, scriptVars>>

\* the walk is exhausted: the merge returns
MergeReturn ==
    /\ mState = "walking"
    /\ mQueue = <<>>
    /\ mState' = "done"
    /\ UNCHANGED <<mImpl, mS, mD, mD0, mQueue, mLockFail>>
    /\ UNCHANGED <<sessionVars, otherVars, fileVars, scriptVars>>

MergeNext == MergeMakeDirs \/ MergeCopyFile \/ MergeReturn

SpecMerge == MergeInit /\ [][MergeNext]_vars

\* ------------------------------------------------------------------------
\* Properties of the merge
\* ------------------------------------------------------------------------

\* C8: when merge(S, D) completes without a lock failure, D holds every file
\* of S at the same relative path with S's content.
MergeCopiesEveryFile ==
    (mState = "done" /\ ~mLockFail) =>
        \A n \in Nodes : IsFile(mS[n]) => mD[n] = mS[n]

\* C9: an entry of D whose relative path does not occur in S is the same
\* after the merge as before it, whether the merge succeeded or failed.
MergeFrame ==
    \A n \in Nodes : (~Exists(mS[n]) /\ Exists(mD0[n])) => mD[n] = mD0[n]

\* the copy of the file at path n is still to come in the walk (the file the
\* merge failed at is the first of them)
NotYetCopied(n) ==
    \E i \in 1..Len(mQueue) : mQueue[i].op = "copy" /\ mQueue[i].path = n

\* C24: a merge that fails partway rolls nothing back: the files copied
\* before the failure hold the source's content, every other file of the
\* destination holds the content it had before the merge, and no file of the
\* destination is gone.
MergeFailsWithoutRollback ==
    mState = "failed" =>
        \A n \in Nodes :
            IF IsFile(mS[n]) /\ ~NotYetCopied(n)
            THEN mD[n] = mS[n]
            ELSE IsFile(mD0[n]) => mD[n] = mD0[n]

\* ------------------------------------------------------------------------
\* The generated swap script <exe>.update.bat
\* (UpdateChecker.update_exe, the text written to bat_path)
\*
\* The shell replaces %ERRORLEVEL% by its value when it reads a command, and
\* it reads a parenthesised block as one command: inside the blocks of
\* RETRY_BACKUP and RETRY_INSTALL the test `if "%ERRORLEVEL%" neq "0"` sees
\* the value ERRORLEVEL had when the block was entered, not the result of the
\* move before it.  echo, if, goto and del leave ERRORLEVEL as it is; ping
\* of the loopback address and a successful move set it to 0, a failed move
\* and a find without a match set it to 1.
\* ------------------------------------------------------------------------

\* a copy in place of the rename: the source stays where it was
CopySourceAfter(c) == c

\* move "<src>" "<dst>" within one directory is a rename: the source path is
\* gone once it succeeds
MoveSourceAfter(c) == "none"

\* ERRORLEVEL after a move
MoveErrorLevel(ok) == IF ok THEN 0 ELSE 1

\* the script is started by restart_now, from the running executable, after
\* the session staged <exe>.new; a backup left by an earlier run may still be
\* there, and another program may have removed the staged file meanwhile
ScriptInit ==
    /\ spc = "start"
    /\ exe = "old"
    /\ staged \in {"new", "none"}
    /\ backup \in {"none", "stale"}
    /\ el = 0
    /\ appRunning \in BOOLEAN
    /\ launched = FALSE
    /\ report = "none"
    /\ SessionParked /\ MergeParked /\ OthersParked

\* the application process exits (the environment)
AppExits ==
    /\ spc \notin {"idle", "exited"}
    /\ appRunning /\ ~launched
    /\ appRunning' = FALSE
    /\ UNCHANGED <<spc, backup, el, launched, report, fileVars, sessionVars, otherVars, mergeVars>>

\* echo ...; ping 127.0.0.1 -n 5 > nul
ScriptStart ==
    /\ spc = "start"
    /\ el' = 0
    /\ spc' = "check"
    /\ UNCHANGED <<backup, appRunning, launched, report, fileVars, sessionVars, otherVars, mergeVars>>

\* a variant that polls once and goes on whatever it found
ScriptCheckProcessOnce ==
    /\ spc = "check"
    /\ el' = IF appRunning THEN 0 ELSE 1
    /\ spc' = "delstale"
    /\ UNCHANGED <<backup, appRunning, launched, report, fileVars, sessionVars, otherVars, mergeVars>>

\* :CHECK_PROCESS  tasklist | find, then the test of ERRORLEVEL (read after
\* the pipeline ran): loop while the image name is listed
ScriptCheckProcess ==
    /\ spc = "check"
    /\ IF appRunning
       THEN el' = 0 /\ spc' = "check_wait"
       ELSE el' = 1 /\ spc' = "delstale"
    /\ UNCHANGED <<backup, appRunning, launched, report, fileVars, sessionVars, otherVars, mergeVars>>

\* if exist "<exe>.backup" del "<exe>.backup"
ScriptDeleteStaleBackup ==
    /\ spc = "delstale"
    /\ \E ok \in BOOLEAN :
         backup' = IF Exists(backup) /\ ok THEN "none" ELSE backup
    /\ spc' = "backup"
    /\ UNCHANGED <<el, appRunning, launched, report, fileVars, sessionVars, otherVars, mergeVars>>

\* a variant that makes room for the new executable by deleting the old one:
\* del "<exe>" in place of the move
ScriptRetryBackupDeletes ==
    /\ spc = "backup"
    /\ LET shown == el IN
       IF Exists(exe)
       THEN \E ok \in BOOLEAN :
              /\ IF ok
                 THEN exe' = "none" /\ UNCHANGED backup
                 ELSE UNCHANGED <<backup, exe>>
              /\ el' = MoveErrorLevel(ok)
              /\ spc' = IF shown # 0 THEN "backup_wait" ELSE "install"
       ELSE /\ spc' = "install"
            /\ UNCHANGED <<backup, exe, el>>
    /\ UNCHANGED <<staged, appRunning, launched, report, sessionVars, otherVars, mergeVars>>

\* :RETRY_BACKUP  if exist "<exe>" ( move "<exe>" "<exe>.backup"
\*                                   if "%ERRORLEVEL%" neq "0" ( ... goto RETRY_BACKUP ) )
ScriptRetryBackup ==
    /\ spc = "backup"
    /\ LET shown == el IN
       IF Exists(exe)
       THEN \E ok \in BOOLEAN :
              /\ IF ok
                 THEN backup' = exe /\ exe' = MoveSourceAfter(exe)
                 ELSE UNCHANGED <<backup, exe>>
              /\ el' = MoveErrorLevel(ok)
              /\ spc' = IF shown # 0 THEN "backup_wait" ELSE "install"
       ELSE /\ spc' = "install"
            /\ UNCHANGED <<backup, exe, el>>
    /\ UNCHANGED <<staged, appRunning, launched, report, sessionVars, otherVars, mergeVars>>

\* :RETRY_INSTALL  if exist "<staged>" ( move "<staged>" "<exe>"
\*                                       if "%ERRORLEVEL%" neq "0" ( ... goto RETRY_INSTALL ) )
\*                 else ( ... restore ... goto END )
ScriptRetryInstall ==
    /\ spc = "install"
    /\ LET shown == el IN
       IF Exists(staged)
       THEN \E ok \in BOOLEAN :
              /\ IF ok
                 THEN exe' = staged /\ staged' = MoveSourceAfter(staged)
                 ELSE UNCHANGED <<exe, staged>>
              /\ el' = MoveErrorLevel(ok)
              /\ spc' = IF shown # 0 THEN "install_wait" ELSE "verify"
       ELSE /\ spc' = "restore_missing"
            /\ UNCHANGED <<exe, staged, el>>
    /\ UNCHANGED <<backup, appRunning, launched, report, sessionVars, otherVars, mergeVars>>

\* the body of the three loops: echo ...; ping 127.0.0.1 -n 3 > nul; goto <label>
ScriptWaitAndRetry ==
    /\ spc \in {"check_wait", "backup_wait", "install_wait"}
    /\ el' = 0
    /\ spc' = CASE spc = "check_wait" -> "check"
               [] spc = "backup_wait" -> "backup"
               [] OTHER -> "install"
    /\ UNCHANGED <<backup, appRunning, launched, report, fileVars, sessionVars, otherVars, mergeVars>>

\* echo Verifying installation...   if not exist "<exe>" ( ... )
ScriptVerify ==
    /\ spc = "verify"
    /\ spc' = IF ~Exists(exe) THEN "restore_unverified" ELSE "launch"
    /\ UNCHANGED <<backup, el, appRunning, launched, report, fileVars, sessionVars, otherVars, mergeVars>>

\* both failure branches:
\*   if exist "<exe>.backup" ( move "<exe>.backup" "<exe>" )
\*   echo Update failed!
\* the result of this move is not tested
ScriptRestore ==
    /\ spc \in {"restore_missing", "restore_unverified"}
    /\ IF Exists(backup)
       THEN \E ok \in BOOLEAN :
              /\ IF ok
                 THEN exe' = backup /\ backup' = MoveSourceAfter(backup)
                 ELSE UNCHANGED <<exe, backup>>
              /\ el' = MoveErrorLevel(ok)
       ELSE UNCHANGED <<exe, backup, el>>
    /\ report' = "failed"
    /\ spc' = "pause"
    /\ UNCHANGED <<staged, appRunning, launched, sessionVars, otherVars, mergeVars>>

\* pause   goto END
ScriptPause ==
    /\ spc = "pause"
    /\ spc' = "end"
    /\ UNCHANGED <<backup, el, appRunning, launched, report, fileVars, sessionVars, otherVars, mergeVars>>

\* start "" "<exe>"
ScriptLaunch ==
    /\ spc = "launch"
    /\ launched' = TRUE
    /\ appRunning' = TRUE
    /\ spc' = "cleanup"
    /\ UNCHANGED <<backup, el, report, fileVars, sessionVars, otherVars, mergeVars>>

\* ping 127.0.0.1 -n 3 > nul   if exist "<exe>.backup" del "<exe>.backup"
\* echo Update completed successfully!
ScriptCleanup ==
    /\ spc = "cleanup"
    /\ \E ok \in BOOLEAN :
         backup' = IF Exists(backup) /\ ok THEN "none" ELSE backup
    /\ el' = 0
    /\ report' = "completed"
    /\ spc' = "end"
    /\ UNCHANGED <<appRunning, launched, fileVars, sessionVars, otherVars, mergeVars>>

\* :END  del "%~f0"
ScriptEnd ==
    /\ spc = "end"
    /\ spc' = "exited"
    /\ UNCHANGED <<backup, el, appRunning, launched, report, fileVars, sessionVars, otherVars, mergeVars>>

ScriptNext ==
    \/ AppExits
    \/ ScriptStart
    \/ ScriptCheckProcess
    \/ ScriptDeleteStaleBackup
    \/ ScriptRetryBackup
    \/ ScriptRetryInstall
    \/ ScriptWaitAndRetry
    \/ ScriptVerify
    \/ ScriptRestore
    \/ ScriptPause
    \/ ScriptLaunch
    \/ ScriptCleanup
    \/ ScriptEnd

SpecScript == ScriptInit /\ [][ScriptNext]_vars

\* ------------------------------------------------------------------------
\* Properties of the swap script
\* ------------------------------------------------------------------------

\* C2: once the script has begun, the paths <exe> and <exe>.backup never hold
\* the same binary at once: the live binary is moved between them by rename
\* and is never duplicated by a copy.
ScriptOneLiveBinary ==
    spc # "idle" => ~(Exists(exe) /\ Exists(backup) /\ exe = backup)

\* the backup rename has moved the live binary: it is at <exe>.backup only
ScriptBackedUp ==
    spc = "install" /\ backup = "old" /\ ~Exists(exe)

\* C3: the script never ends with the original path absent while the backup
\* exists (a failed install step is followed by the rename of the backup back
\* to the original path).
ScriptEndsRestored ==
    spc = "exited" => ~(~Exists(exe) /\ Exists(backup))

\* the place of a position of the script in the order of its steps: the
\* process poll, the deletion of a stale backup, the backup rename, the
\* install rename, the verification, the restart, the deletion of the
\* backup; then the failure branches and the end
ScriptRank(p) ==
    CASE p \in {"idle", "start"} -> 0
      [] p \in {"check", "check_wait"} -> 1
      [] p = "delstale" -> 2
      [] p \in {"backup", "backup_wait"} -> 3
      [] p \in {"install", "install_wait"} -> 4
      [] p = "verify" -> 5
      [] p = "launch" -> 6
      [] p = "cleanup" -> 7
      [] p \in {"restore_missing", "restore_unverified"} -> 8
      [] p = "pause" -> 9
      [] p = "end" -> 10
      [] OTHER -> 11

\* C23: the script renames or deletes none of <exe>, <exe>.backup and
\* <exe>.new before its process poll has found no process with the
\* executable's image name; the backup rename comes before the install
\* rename, which comes before the verification, the restart and the deletion
\* of the backup.
ScriptStepsInOrder ==
    [][/\ ScriptRank(spc') >= ScriptRank(spc)
       /\ (ScriptRank(spc) < 2 /\ ScriptRank(spc') >= 2) => ~appRunning
       /\ (exe' # exe \/ backup' # backup \/ staged' # staged)
             => ScriptRank(spc) >= 2
       /\ (Exists(exe) /\ ~Exists(exe') /\ backup' = exe) => spc = "backup"
       /\ staged' # staged => spc = "install"
       /\ launched' # launched => spc = "launch"
       /\ (Exists(backup) /\ ~Exists(backup') /\ exe' = exe)
             => spc \in {"delstale", "cleanup"}]_vars

ScriptCompleted ==
    /\ spc = "exited" /\ report = "completed"
    /\ exe = "new" /\ launched /\ ~Exists(staged)

\* ------------------------------------------------------------------------
\* One update session
\*   "checker_source"    UpdateChecker.update_source.do_update
\*   "checker_exe"       UpdateChecker.update_exe.do_update
\*   "installer_source"  Updater.update_source
\*   "installer_exe"     Updater.update_exe
\* ------------------------------------------------------------------------

Flows == {"checker_source", "checker_exe", "installer_source", "installer_exe"}

SourceFlows == {"checker_source", "installer_source"}

ExeFlows == {"checker_exe", "installer_exe"}

\* the positions at which a session has ended
Terminal == {"AwaitingRestart", "Failed", "Exited"}

notifVars == <<restartEnabled, errorLogged, failNotified, callerResult>>

histVars == <<raised, copyRaised, lockFailed, stagingFailed>>

tmpVars == <<tmpFile, tmpDir>>

binVars == <<exe, exeOld, staged, script>>

\* copy plans: "data" is a file or directory of the release, "missing" an
\* entry of items_to_copy that the release does not hold, "exe" the
\* application's executable among exe_files (Updater.update_exe only)
RECURSIVE SeqsUpTo(_, _)
SeqsUpTo(S, n) ==
    IF n = 0 THEN {<<>>}
    ELSE LET shorter == SeqsUpTo(S, n - 1) IN
         shorter \cup {Append(q, x) : q \in shorter, x \in S}

Plans(f) ==
    IF f = "installer_exe"
    THEN {q \in SeqsUpTo({"data", "missing", "exe"}, MaxItems) :
            Cardinality({i \in 1..Len(q) : q[i] = "exe"}) = 1}
    ELSE {q \in SeqsUpTo({"data", "missing"}, MaxItems) : q # <<>>}

SessionInit ==
    /\ flow \in Flows
    /\ pc = "Idle"
    /\ progress = 0
    /\ plan = <<>>
    /\ tmpFile = FALSE /\ tmpDir = FALSE
    /\ exe = "old"
    /\ exeOld = "none"
    /\ staged \in {"none", "stale"}
    /\ script = "none"
    /\ restartEnabled = FALSE /\ errorLogged = FALSE /\ failNotified = FALSE
    /\ callerResult = "running"
    /\ raised = FALSE /\ copyRaised = FALSE /\ lockFailed = FALSE
    /\ stagingFailed = FALSE
    /\ dropped = FALSE /\ updaterBackup = FALSE /\ layoutFailed = FALSE
    /\ outOfRange = FALSE /\ reported100 = FALSE
    /\ rootTouched = FALSE
    /\ MergeParked /\ ScriptParked /\ OthersParked

progVars == <<progress, dropped, outOfRange, reported100>>

rootVars == <<updaterBackup, rootTouched>>

\* some value of the sequence is lower than the one before it
Descends(values) ==
    \E i \in 1..(Len(values) - 1) : values[i + 1] < values[i]

\* the calls set_progress(v, ...) for the values v of the sequence, in order
SetProgress(values) ==
    /\ progress' = IF values = <<>> THEN progress ELSE values[Len(values)]
    /\ dropped' = (dropped \/ Descends(<<progress>> \o values))
    /\ outOfRange' = (outOfRange \/ \E i \in 1..Len(values) : values[i] \notin 0..100)
    /\ reported100' = (reported100 \/ \E i \in 1..Len(values) : values[i] = 100)

\* the handler at the top of each flow, reached after the calls
\* set_progress(v) for the values given:
\*   except Exception as e:
\*       log("... failed: ...", "error"); set_progress(0, "Update failed!")
\*       messagebox.showerror(...)
\* the exception is not raised again: the operation returns to its caller
HandlerAfter(values) ==
    /\ errorLogged' = TRUE
    /\ failNotified' = TRUE
    /\ SetProgress(values \o <<0>>)
    /\ pc' = "Failed"
    /\ callerResult' = "returned"
    /\ UNCHANGED restartEnabled

Handler == HandlerAfter(<<>>)

\* an exception raised at the current position reaches the handler
RaiseAfter(values) ==
    /\ raised' = TRUE
    /\ HandlerAfter(values)

Raise == RaiseAfter(<<>>)

\* the error returns of UpdateChecker.update_exe:
\*   log(..., "error"); set_progress(0, "Update failed!"); showerror; return
ErrorReturn == Handler

\* the calls set_progress(v, ...) for the values given, then the next position
AdvanceVia(values, next) ==
    /\ SetProgress(values)
    /\ pc' = next
    /\ UNCHANGED notifVars

\* set_progress(value, ...) and continue at the next position
Advance(value, next) == AdvanceVia(<<value>>, next)

\* wait_for_main_app_closure(max_wait_seconds=30)
MaxWaitSeconds == 30

\* the seconds one pass of the closure wait may take: the sleep of 2 s and
\* the time of the checks before it
PassSeconds == {2, 5, 15}

\* Updater.wait_for_main_app_closure: the loop
\*   while time.time() - start_time < max_wait_seconds:
\*       (the watched file is not locked) -> log success, return True
\*       time.sleep(2)
\*   log("Timeout waiting for application closure", "warning"); return False
\* entered with elapsed seconds on the clock, its next poll being observation
\* poll of the watched file c
RECURSIVE ClosureWaitLoop(_, _, _, _, _)
ClosureWaitLoop(c, env, poll, elapsed, pass) ==
    IF elapsed >= MaxWaitSeconds
    THEN [closed |-> FALSE, polls |-> poll - 1, warned |-> TRUE]
    ELSE IF ~IsFileLocked(c, env, poll)
    THEN [closed |-> TRUE, polls |-> poll, warned |-> FALSE]
    ELSE ClosureWaitLoop(c, env, poll + 1, elapsed + pass, pass)

WaitForMainAppClosure(c, env, pass) == ClosureWaitLoop(c, env, 1, 0, pass)

\* a variant in which the timeout of the closure wait ends the update
AfterClosureWaitStrict(closed) ==
    IF closed THEN "FetchingMetadata" ELSE "Failed"

\* Updater.update_source / update_exe after the wait:
\*   if not self.wait_for_main_app_closure():
\*       self.log("Continuing update despite locked files (may fail)...", "warning")
\*   self.set_progress(15, "Fetching release information...")
AfterClosureWait(closed) == "FetchingMetadata"

\* what a path of the project root is: absent, a file or a directory
EntryKinds == {"none", "file", "dir"}

\* a variant that does not ask for the .github directory
UsesGitPullAnyCheckout(client, git, github, ignore) ==
    client /\ git = "dir" /\ ignore = "file"

\* UpdateChecker.update_source, the choice of the update path:
\*   shutil.which("git") and os.path.isdir(git_dir) and
\*   os.path.isdir(github_dir) and os.path.isfile(gitignore_file)
UsesGitPull(client, git, github, ignore) ==
    client /\ git = "dir" /\ github = "dir" /\ ignore = "file"

\* the first lines of each flow, up to the fetch of the release information.
\*   UpdateChecker.update_exe     set_progress(5)
\*   UpdateChecker.update_source  set_progress(5); no project root raises;
\*                                set_progress(10) on either branch
\*   Updater.update_source        set_progress(10); no project root raises;
\*                                create_updater_backup() copies the updater
\*                                script to <script>.backup (a failure is
\*                                only a warning); wait_for_main_app_closure
\*                                sets progress 5; set_progress(15)
\*   Updater.update_exe           raises off Windows; set_progress(10); no
\*                                application directory raises; the wait
\*                                (progress 5); set_progress(15)
StartUpdate ==
    /\ pc = "Idle"
    /\ \E outcome \in {"ok", "noroot", "platform"}, client \in BOOLEAN,
          git \in EntryKinds, github \in EntryKinds, ignore \in EntryKinds,
          backupOk \in BOOLEAN, closed \in BOOLEAN :
         CASE flow = "checker_exe" ->
                /\ outcome = "ok"
                /\ Advance(5, "FetchingMetadata")
                /\ UNCHANGED <<raised, rootVars>>
           [] flow = "checker_source" ->
                /\ outcome # "platform"
                /\ IF outcome = "noroot" THEN RaiseAfter(<<5>>)
                   ELSE /\ AdvanceVia(<<5, 10>>,
                                      IF UsesGitPull(client, git, github, ignore)
                                      THEN "GitPull" ELSE "FetchingMetadata")
                        /\ UNCHANGED raised
                /\ UNCHANGED rootVars
           [] flow = "installer_source" ->
                /\ outcome # "platform"
                /\ IF outcome = "noroot"
                   THEN RaiseAfter(<<10>>) /\ UNCHANGED rootVars
                   ELSE /\ AdvanceVia(<<10, 5, 15>>, AfterClosureWait(closed))
                        /\ updaterBackup' = backupOk
                        /\ rootTouched' = backupOk
                        /\ UNCHANGED raised
           [] OTHER ->
                /\ CASE outcome = "platform" -> Raise
                     [] outcome = "noroot" -> RaiseAfter(<<10>>)
                     [] OTHER -> /\ AdvanceVia(<<10, 5, 15>>, AfterClosureWait(closed))
                                 /\ UNCHANGED raised
                /\ UNCHANGED rootVars
    /\ UNCHANGED <<flow, plan, tmpVars, binVars, copyRaised, lockFailed,
                   stagingFailed, layoutFailed>>
    /\ UNCHANGED <<otherVars, mergeVars, scriptVars>>

\* a variant in which a failing git pull falls back to the archive download
GitPullFallsBack ==
    /\ pc = "GitPull"
    /\ \E ok \in BOOLEAN :
         IF ok
         THEN /\ SetProgress(<<100>>)
              /\ pc' = "AwaitingRestart"
              /\ restartEnabled' = TRUE
              /\ callerResult' = "returned"
              /\ rootTouched' = TRUE
              /\ UNCHANGED <<errorLogged, failNotified, raised, updaterBackup>>
         ELSE /\ Advance(10, "FetchingMetadata")
              /\ UNCHANGED <<raised, rootVars>>
    /\ UNCHANGED <<flow, plan, tmpVars, binVars, copyRaised, lockFailed,
                   stagingFailed, layoutFailed>>
    /\ UNCHANGED <<otherVars, mergeVars, scriptVars>>

\* UpdateChecker.update_source, the git branch: subprocess.run(["git", "pull"],
\* check=True); on success set_progress(100) and enable_restart
GitPull ==
    /\ pc = "GitPull"
    /\ \E ok \in BOOLEAN :
         IF ok
         THEN /\ SetProgress(<<100>>)
              /\ pc' = "AwaitingRestart"
              /\ restartEnabled' = TRUE
              /\ callerResult' = "returned"
              /\ rootTouched' = TRUE
              /\ UNCHANGED <<errorLogged, failNotified, raised, updaterBackup>>
         ELSE /\ Raise
              /\ UNCHANGED rootVars
    /\ UNCHANGED <<flow, plan, tmpVars, binVars, copyRaised, lockFailed,
                   stagingFailed, layoutFailed>>
    /\ UNCHANGED <<otherVars, mergeVars, scriptVars>>

\* get_latest_release_info() and, in the executable flows, the choice of the
\* .7z asset.  UpdateChecker.update_exe returns with an error when there is
\* none, Updater.update_exe raises; UpdateChecker.update_exe then reports
\* progress 10, makes its temporary directory and reports progress 15; the
\* others report progress 20.
FetchMetadata ==
    /\ pc = "FetchingMetadata"
    /\ \E outcome \in {"ok", "raise", "noasset"} :
         CASE outcome = "raise" ->
                Raise /\ UNCHANGED tmpVars
           [] outcome = "noasset" ->
                /\ flow \in ExeFlows
                /\ IF flow = "checker_exe"
                   THEN ErrorReturn /\ UNCHANGED raised
                   ELSE Raise
                /\ UNCHANGED tmpVars
           [] OTHER ->
                /\ IF flow = "checker_exe"
                   THEN /\ AdvanceVia(<<10, 15>>, "Downloading")
                        /\ tmpDir' = TRUE
                        /\ UNCHANGED tmpFile
                   ELSE /\ Advance(20, "Downloading")
                        /\ UNCHANGED tmpVars
                /\ UNCHANGED raised
    /\ UNCHANGED <<flow, plan, binVars, copyRaised, lockFailed, stagingFailed,
                   layoutFailed, rootVars>>
    /\ UNCHANGED <<otherVars, mergeVars, scriptVars>>

\* the values the download loop reports: after each chunk
\*   if total_size: set_progress(base + downloaded * span // total_size)
\* with sizes counted in chunks; nothing is reported when the content-length
\* header is missing (total_size 0)
DownloadReports(base, span, declared, received) ==
    IF declared = 0 THEN <<>>
    ELSE [j \in 1..received |-> base + ((j * span) \div declared)]

\* requests.get(url, stream=True), raise_for_status(), and the loop writing
\* the chunks to the archive file.  UpdateChecker.update_exe writes into the
\* temporary directory it made; the others into a NamedTemporaryFile
\* (delete=False).  "refused" fails before the file is created, "broken"
\* while it is written.
Download ==
    /\ pc = "Downloading"
    /\ \E outcome \in {"ok", "refused", "broken"},
          declared \in 0..MaxDeclared, received \in 0..MaxReceived :
         LET loop == IF flow = "checker_exe"
                     THEN DownloadReports(15, 30, declared, received)
                     ELSE DownloadReports(20, 40, declared, received) IN
         CASE outcome = "refused" ->
                Raise /\ UNCHANGED tmpVars
           [] outcome = "broken" ->
                RaiseAfter(loop) /\ tmpFile' = TRUE /\ UNCHANGED tmpDir
           [] OTHER ->
                /\ AdvanceVia(loop \o <<IF flow = "checker_exe" THEN 45 ELSE 60>>,
                              "Extracting")
                /\ tmpFile' = TRUE
                /\ UNCHANGED <<tmpDir, raised>>
    /\ UNCHANGED <<flow, plan, binVars, copyRaised, lockFailed, stagingFailed,
                   layoutFailed, rootVars>>
    /\ UNCHANGED <<otherVars, mergeVars, scriptVars>>

\* the extraction of the archive into a fresh directory.
\* UpdateChecker.update_exe catches a failure itself: it removes its temporary
\* directory and returns with an error.  In the other flows the exception
\* reaches the handler: "unreadable" is raised on opening the archive, before
\* mkdtemp() (in Updater.update_exe mkdtemp() comes first), "broken" by
\* extractall.
Extract ==
    /\ pc = "Extracting"
    /\ \E outcome \in {"ok", "unreadable", "broken"} :
         CASE outcome = "ok" ->
                /\ Advance(70, "LocatingRoot")
                /\ tmpDir' = TRUE
                /\ UNCHANGED <<tmpFile, raised>>
           [] flow = "checker_exe" ->
                /\ ErrorReturn
                /\ raised' = TRUE
                /\ tmpDir' = FALSE /\ tmpFile' = FALSE
           [] OTHER ->
                /\ Raise
                /\ tmpDir' = (outcome = "broken" \/ flow = "installer_exe")
                /\ UNCHANGED tmpFile
    /\ UNCHANGED <<flow, plan, binVars, copyRaised, lockFailed, stagingFailed,
                   layoutFailed, rootVars>>
    /\ UNCHANGED <<otherVars, mergeVars, scriptVars>>

\* the search of the extracted tree: _find_github_zipball_root in the source
\* flows, the walk for .exe files in UpdateChecker.update_exe, the release
\* root and find_exe_files in Updater.update_exe.  Nothing found:
\*   UpdateChecker.update_source  raises,
\*   Updater.update_source        removes the archive and the directory and
\*                                goes on to the main-branch archive,
\*   UpdateChecker.update_exe     removes its temporary directory and returns
\*                                with an error,
\*   Updater.update_exe           raises.
\* Found: set_progress(80, ...) and the copy plan is fixed.
Locate ==
    /\ pc = "LocatingRoot"
    /\ \E found \in BOOLEAN, p \in Plans(flow) :
         IF found
         THEN /\ Advance(80, "Installing")
              /\ plan' = IF flow = "checker_exe" THEN <<>> ELSE p
              /\ UNCHANGED <<tmpVars, raised, layoutFailed>>
         ELSE CASE flow = "installer_source" ->
                     /\ pc' = "FallbackDownloading"
                     /\ tmpFile' = FALSE /\ tmpDir' = FALSE
                     /\ UNCHANGED <<plan, raised, progVars, notifVars,
                                    layoutFailed>>
                [] flow = "checker_exe" ->
                     /\ ErrorReturn
                     /\ tmpFile' = FALSE /\ tmpDir' = FALSE
                     /\ UNCHANGED <<plan, raised, layoutFailed>>
                [] OTHER ->
                     /\ Raise
                     /\ layoutFailed' = (flow = "checker_source")
                     /\ UNCHANGED <<plan, tmpVars>>
    /\ UNCHANGED <<flow, binVars, copyRaised, lockFailed, stagingFailed,
                   rootVars>>
    /\ UNCHANGED <<otherVars, mergeVars, scriptVars>>

\* Updater.update_source, the second fallback: download of the main-branch
\* archive (its loop reports 25 + downloaded * 35 // total_size), extraction
\* and a second _find_github_zipball_root; not found raises
\* "Could not find project structure in either release or main branch"
FallbackDownload ==
    /\ pc = "FallbackDownloading"
    /\ \E outcome \in {"found", "refused", "broken_download", "unreadable",
                       "broken_extract", "notfound"},
          p \in Plans(flow),
          declared \in 0..MaxDeclared, received \in 0..MaxReceived :
         LET loop == DownloadReports(25, 35, declared, received) IN
         CASE outcome = "found" ->
                /\ AdvanceVia(loop \o <<80>>, "Installing")
                /\ plan' = p
                /\ tmpFile' = TRUE /\ tmpDir' = TRUE
                /\ UNCHANGED <<raised, layoutFailed>>
           [] outcome = "refused" ->
                Raise /\ UNCHANGED <<plan, tmpVars, layoutFailed>>
           [] outcome = "broken_download" ->
                /\ RaiseAfter(loop)
                /\ tmpFile' = TRUE
                /\ UNCHANGED <<plan, tmpDir, layoutFailed>>
           [] outcome = "unreadable" ->
                /\ RaiseAfter(loop)
                /\ tmpFile' = TRUE
                /\ UNCHANGED <<plan, tmpDir, layoutFailed>>
           [] OTHER ->
                /\ RaiseAfter(loop)
                /\ tmpFile' = TRUE /\ tmpDir' = TRUE
                /\ layoutFailed' = (outcome = "notfound")
                /\ UNCHANGED plan
    /\ UNCHANGED <<flow, binVars, copyRaised, lockFailed, stagingFailed,
                   rootVars>>
    /\ UNCHANGED <<otherVars, mergeVars, scriptVars>>

\* the content of a destination after a copy through a retry wrapper
AfterCopy(before, r) ==
    IF r.copied THEN "new" ELSE IF r.truncated THEN "partial" ELSE before

\* one pass of the loop `for item in items_to_copy` of the source flows and of
\* Updater.update_exe.
\*   UpdateChecker.update_source: copy_item(src_path, dst_path); an exception
\*     leaves the loop and reaches the handler.
\*   Updater.update_source, Updater.update_exe: the copy is wrapped in
\*     try/except: the exception is logged ("Failed to copy ...", "error") and
\*     the loop goes on; Updater.update_exe raises it again for an .exe item.
\*   An .exe item whose destination exists is first renamed to <exe>.old.
InstallItem ==
    /\ pc = "Installing"
    /\ flow # "checker_exe"
    /\ plan # <<>>
    /\ \E env \in Envs, dst \in {"none", "old"}, renameOk \in BOOLEAN :
         LET item == Head(plan) IN
         CASE item = "missing" ->
                /\ plan' = Tail(plan)
                /\ UNCHANGED <<pc, progVars, notifVars, histVars, binVars>>
           [] item = "data" /\ flow = "checker_source" ->
                LET r == CheckerCopyFile(dst, env) IN
                IF r.result = "ok"
                THEN /\ plan' = Tail(plan)
                     /\ UNCHANGED <<pc, progVars, notifVars, histVars, binVars>>
                ELSE /\ Raise
                     /\ copyRaised' = TRUE
                     /\ lockFailed' = (lockFailed \/ r.result = "locked")
                     /\ UNCHANGED <<plan, stagingFailed, binVars>>
           [] item = "data" ->
                LET r == InstallerCopyFile(dst, env) IN
                IF r.result = "ok"
                THEN /\ plan' = Tail(plan)
                     /\ UNCHANGED <<pc, progVars, notifVars, histVars, binVars>>
                ELSE /\ errorLogged' = TRUE
                     /\ raised' = TRUE
                     /\ copyRaised' = TRUE
                     /\ lockFailed' = (lockFailed \/ r.result = "locked")
                     /\ plan' = Tail(plan)
                     /\ UNCHANGED <<pc, progVars, restartEnabled, failNotified,
                                    callerResult, stagingFailed, binVars>>
           [] OTHER ->
                LET renamed == Exists(exe) /\ renameOk
                    mid == IF renamed THEN "none" ELSE exe
                    r == InstallerCopyFile(mid, env)
                IN /\ exeOld' = IF renamed THEN exe ELSE exeOld
                   /\ exe' = AfterCopy(mid, r)
                   /\ IF r.result = "ok"
                      THEN /\ plan' = Tail(plan)
                           /\ UNCHANGED <<pc, progVars, notifVars, histVars>>
                      ELSE /\ Raise
                           /\ copyRaised' = TRUE
                           /\ lockFailed' = (lockFailed \/ r.result = "locked")
                           /\ UNCHANGED <<plan, stagingFailed>>
                   /\ UNCHANGED <<staged, script>>
    /\ rootTouched' = (rootTouched \/ Head(plan) # "missing")
    /\ UNCHANGED <<flow, tmpVars, layoutFailed, updaterBackup>>
    /\ UNCHANGED <<otherVars, mergeVars, scriptVars>>

\* after the loop: os.remove(tmp_path); rmtree(extract_dir);
\* in Updater.update_source cleanup_updater_backup(), which removes
\* <script>.backup (a failure is only a warning);
\* set_progress(100, "Update complete!"); enable_restart(restart_app).
\* A failing os.remove raises before anything else is done.
FinishInstall ==
    /\ pc = "Installing"
    /\ flow # "checker_exe"
    /\ plan = <<>>
    /\ \E removeOk \in BOOLEAN, cleanupOk \in BOOLEAN :
         IF removeOk
         THEN /\ tmpFile' = FALSE /\ tmpDir' = FALSE
              /\ updaterBackup' = (updaterBackup /\ ~(flow = "installer_source"
                                                      /\ cleanupOk))
              /\ SetProgress(<<100>>)
              /\ restartEnabled' = TRUE
              /\ callerResult' = "returned"
              /\ pc' = "AwaitingRestart"
              /\ UNCHANGED <<errorLogged, failNotified, raised>>
         ELSE /\ Raise
              /\ UNCHANGED <<tmpVars, updaterBackup>>
    /\ UNCHANGED <<flow, plan, copyRaised, lockFailed, stagingFailed, binVars,
                   layoutFailed, rootTouched>>
    /\ UNCHANGED <<otherVars, mergeVars, scriptVars>>

\* UpdateChecker.update_exe, staging <exe>.new:
\*   a staged path that exists and is locked is waited for (max_attempts=5);
\*   still locked, it is removed, and a failing os.remove raises;
\*   safe_file_operation(shutil.copy2, new_exe_path, staged_exe, max_attempts=3);
\*   if the staged path does not exist afterwards: error, rmtree(temp_dir),
\*   set_progress(0), return;
\*   otherwise set_progress(90, "Creating update script...").
\* removeOk is the outcome of os.remove, vanished whether the staged file is
\* gone again when os.path.exists looks for it.
StageExe ==
    /\ pc = "Installing"
    /\ flow = "checker_exe"
    /\ \E env \in Envs, removeOk \in BOOLEAN, vanished \in BOOLEAN :
         LET lockedFirst == Exists(staged) /\ IsFileLocked(staged, env, 1)
             w == WaitForFileUnlock(staged, env, 2, StageWaitAttempts)
             stuck == lockedFirst /\ ~w.unlocked
             mid == IF stuck /\ removeOk THEN "none" ELSE staged
             r == SafeFileOperation(mid, env,
                                    IF lockedFirst THEN 2 + w.polls ELSE 2,
                                    SafeOpAttempts)
             after == AfterCopy(mid, r)
         IN IF stuck /\ ~removeOk
            THEN /\ Raise
                 /\ stagingFailed' = TRUE
                 /\ UNCHANGED <<staged, tmpVars>>
            ELSE IF r.result # "ok"
            THEN /\ Raise
                 /\ stagingFailed' = TRUE
                 /\ staged' = after
                 /\ UNCHANGED tmpVars
            ELSE IF ~Exists(after) \/ vanished
            THEN /\ ErrorReturn
                 /\ stagingFailed' = TRUE
                 /\ staged' = "none"
                 /\ tmpFile' = FALSE /\ tmpDir' = FALSE
                 /\ UNCHANGED raised
            ELSE /\ Advance(90, "WritingScript")
                 /\ stagingFailed' = (stagingFailed \/ ~r.copied)
                 /\ staged' = after
                 /\ UNCHANGED <<tmpVars, raised>>
    /\ rootTouched' = TRUE
    /\ UNCHANGED <<flow, plan, exe, exeOld, script, copyRaised, lockFailed,
                   layoutFailed, updaterBackup>>
    /\ UNCHANGED <<otherVars, mergeVars, scriptVars>>

\* a variant that hands the restart callback over although the script was
\* only partly written
WriteScriptEarly ==
    /\ pc = "WritingScript"
    /\ \E outcome \in {"ok", "partial"} :
         /\ script' = IF outcome = "ok" THEN "written" ELSE "partial"
         /\ tmpFile' = FALSE /\ tmpDir' = FALSE
         /\ SetProgress(<<100>>)
         /\ restartEnabled' = TRUE
         /\ callerResult' = "returned"
         /\ pc' = "AwaitingRestart"
         /\ UNCHANGED <<errorLogged, failNotified, raised>>
    /\ UNCHANGED <<flow, plan, exe, exeOld, staged, copyRaised, lockFailed,
                   stagingFailed, layoutFailed, rootVars>>
    /\ UNCHANGED <<otherVars, mergeVars, scriptVars>>

\* UpdateChecker.update_exe, from open(bat_path, "w") to enable_restart:
\* the script is written, rmtree(temp_dir, ignore_errors=True),
\* set_progress(100, "Update ready!"), enable_restart(restart_now).
\* A failing open or write raises, leaving no script or a partial one.
WriteScript ==
    /\ pc = "WritingScript"
    /\ \E outcome \in {"ok", "noopen", "partial"} :
         IF outcome = "ok"
         THEN /\ script' = "written"
              /\ tmpFile' = FALSE /\ tmpDir' = FALSE
              /\ SetProgress(<<100>>)
              /\ restartEnabled' = TRUE
              /\ callerResult' = "returned"
              /\ pc' = "AwaitingRestart"
              /\ UNCHANGED <<errorLogged, failNotified, raised>>
         ELSE /\ Raise
              /\ script' = IF outcome = "partial" THEN "partial" ELSE script
              /\ UNCHANGED tmpVars
    /\ UNCHANGED <<flow, plan, exe, exeOld, staged, copyRaised, lockFailed,
                   stagingFailed, layoutFailed, rootVars>>
    /\ UNCHANGED <<otherVars, mergeVars, scriptVars>>

\* the user presses the restart button: the callback handed to enable_restart
\* runs.  restart_now of UpdateChecker.update_exe starts the script
\* (os.startfile(bat_path)) and exits; the others start the application anew
\* and exit.
RestartNow ==
    /\ pc = "AwaitingRestart"
    /\ restartEnabled
    /\ pc' = "Exited"
    /\ spc' = IF flow = "checker_exe" THEN "start" ELSE spc
    /\ UNCHANGED <<flow, progVars, plan, tmpVars, binVars, notifVars, histVars,
                   layoutFailed, rootVars>>
    /\ UNCHANGED <<otherVars, mergeVars, backup, el, appRunning, launched, report>>

Next ==
    \/ StartUpdate
    \/ GitPull
    \/ FetchMetadata
    \/ Download
    \/ Extract
    \/ Locate
    \/ FallbackDownload
    \/ InstallItem
    \/ FinishInstall
    \/ StageExe
    \/ WriteScript
    \/ RestartNow

Spec == SessionInit /\ [][Next]_vars

\* ------------------------------------------------------------------------
\* Properties of a session
\* ------------------------------------------------------------------------

\* C1: in executable mode, a session that failed without having written the
\* replacement script leaves the live executable as it was before the update
ExeUntouchedOnEarlyFailure ==
    (flow \in ExeFlows /\ pc = "Failed" /\ script # "written") => exe = "old"

\* C4: a session in which the copy of some item raised is never reported as
\* a successful update: it does not reach AwaitingRestart and restart is not
\* enabled
NoSuccessAfterCopyRaised ==
    copyRaised => (pc \notin {"AwaitingRestart", "Exited"} /\ ~restartEnabled)

\* C5: when a session has ended, on success or on failure, its downloaded
\* archive and its extraction/working directory are gone
TempRemovedAtEnd ==
    pc \in Terminal => (~tmpFile /\ ~tmpDir)

\* C6: a session in which an exception was raised ends in Failed, with an
\* error logged and the failure notification issued, and the exception
\* reaches the caller of the update operation
ExceptionsPropagate ==
    (raised /\ pc \in Terminal) =>
        /\ pc = "Failed"
        /\ errorLogged
        /\ failNotified
        /\ callerResult = "raised"

\* C7: in executable mode, once staging <exe>.new has failed, no replacement
\* script is written and enable_restart is not called
StagingFailureWritesNoScript ==
    stagingFailed => (script = "none" /\ ~restartEnabled)

\* staging failed because every attempt of the copy failed, and the session
\* has ended
StagingFailedSession ==
    /\ flow = "checker_exe"
    /\ stagingFailed
    /\ raised
    /\ pc = "Failed"

\* C10: a session in which a destination was still locked after the bounded
\* wait ends as failed; it never ends with a success report
LockedNeverSkipped ==
    (lockFailed /\ pc \in Terminal) => pc = "Failed"

\* C11: the step of the install loop that finds a required copy-plan entry
\* missing from the located root aborts the update as failed.  (Entries of
\* the optional lists are put on the plan only when the root holds them, so a
\* "missing" entry of the plan is always a required one.)
RequiredMissingAborts ==
    [][(pc = "Installing" /\ plan # <<>> /\ Head(plan) = "missing")
          => pc' = "Failed"]_vars

\* C14: when the archive's root is found in no phase of the locator, the
\* update fails and the session has by then created, changed or removed
\* nothing under the install/project root.
LayoutFailureLeavesRootUntouched ==
    layoutFailed => (pc = "Failed" /\ ~rootTouched /\ ~updaterBackup)

\* C21: in executable mode the restart callback is handed over only when the
\* new executable is staged at <exe>.new and the replacement script is
\* completely written; invoking the callback starts the script and the
\* process exits.
RestartHandedOverWhenReady ==
    /\ []((flow = "checker_exe" /\ restartEnabled)
            => (staged = "new" /\ script = "written"))
    /\ [][(flow = "checker_exe" /\ pc = "AwaitingRestart" /\ pc' # pc)
            => (pc' = "Exited" /\ spc' = "start")]_vars

ScriptStartedByRestart ==
    /\ flow = "checker_exe" /\ pc = "Exited" /\ spc = "start"
    /\ staged = "new" /\ script = "written"

\* the place of a position of the session in the order Idle, FetchingMetadata,
\* Downloading, Extracting, LocatingRoot, Installing, AwaitingRestart,
\* Succeeded; the git pull, the staging and the writing of the script belong
\* to Installing, the download of the main-branch archive to Downloading
StateRank(p) ==
    CASE p = "Idle" -> 0
      [] p = "FetchingMetadata" -> 1
      [] p \in {"Downloading", "FallbackDownloading"} -> 2
      [] p = "Extracting" -> 3
      [] p = "LocatingRoot" -> 4
      [] p \in {"GitPull", "Installing", "WritingScript"} -> 5
      [] p = "AwaitingRestart" -> 6
      [] OTHER -> 7

\* a step that keeps the order of the states: forward, or to Failed; the end
\* is reached from AwaitingRestart only
OrderedStep ==
    /\ pc' # "Failed" => StateRank(pc') >= StateRank(pc)
    /\ pc' = "Exited" => pc \in {"AwaitingRestart", "Exited"}
    /\ pc = "Exited" => pc' = "Exited"
    /\ pc = "Failed" => pc' = "Failed"

\* C22 as stated: a session visits Idle, FetchingMetadata, Downloading,
\* Extracting, LocatingRoot, Installing, AwaitingRestart only in that order
\* and never returns to an earlier state; the only other transitions are to
\* Failed and, from AwaitingRestart, to Succeeded.
StatesVisitedInOrder == [][OrderedStep]_vars

\* C22, amended: as stated, except that Updater.update_source, when the root
\* of the release archive is not located, returns from LocatingRoot to
\* Downloading for the main-branch archive.
StatesInOrderButFallback ==
    [][OrderedStep \/ (/\ flow = "installer_source"
                       /\ pc = "LocatingRoot"
                       /\ pc' = "FallbackDownloading")]_vars

InstallerSourceRanToEnd ==
    flow = "installer_source" /\ pc = "Exited" /\ progress = 100

\* C28: in source mode a release archive whose root is not located is
\* followed by one download of the main-branch archive, made after the first
\* archive file and extraction directory were removed; when the root is not
\* located in that archive either the session fails, and there is no second
\* attempt.
FallbackDownloadedOnce ==
    [][/\ (flow \in SourceFlows /\ pc = "LocatingRoot"
            /\ pc' \notin {"LocatingRoot", "Installing"})
          => (pc' = "FallbackDownloading" /\ ~tmpFile' /\ ~tmpDir')
       /\ (pc = "FallbackDownloading" /\ pc' # pc)
          => pc' \in {"Installing", "Failed"}]_vars

\* C18: within a session no set_progress call carries a value lower than an
\* earlier call of the session, on success paths and on failure paths.
ProgressNeverDrops == ~dropped

\* ------------------------------------------------------------------------
\* Calls of the helper functions, one call at a time
\* ------------------------------------------------------------------------

\* ---- the search for the root of an extracted archive ----

\* the entry names the searches look at, and two names an archive generator
\* may give a wrapper directory
ProjectNames == {"assets", "docs", "ImageMagick", "setup", "src",
                 "latestVersion.txt", "LICENSE", "README.md", "app.exe"}

WrapperNames == {"repo-abc123", "extra"}

EntryNames == ProjectNames \cup WrapperNames

\* os.listdir of a directory as a function: what kind of entry each name is
Listing(dirs, files) ==
    [n \in EntryNames |->
        IF n \in dirs THEN "dir" ELSE IF n \in files THEN "file" ELSE "none"]

ListDir(l) == {n \in EntryNames : l[n] # "none"}

Empty == Listing({}, {})

\* src/ and README.md, nothing else
Minimal == Listing({"src"}, {"README.md"})

\* the names src and README.md are there, but src is a file
SrcAsFile == Listing({}, {"src", "README.md"})

OnlyAssets == Listing({"assets"}, {})

\* the structure UpdateChecker._detect_project_root asks for
FullChecker == Listing({"assets", "docs", "ImageMagick", "setup", "src"},
                       {"latestVersion.txt", "LICENSE", "README.md"})

\* the structure Updater._detect_project_root asks for in source mode
FullInstaller == Listing({"assets", "ImageMagick", "src"},
                         {"latestVersion.txt", "LICENSE", "README.md"})

\* an executable release
ExeRelease == Listing({"assets", "ImageMagick"}, {"app.exe", "LICENSE"})

\* an executable and nothing else
ExeOnly == Listing({}, {"app.exe"})

ChildShapes == {Empty, Minimal, SrcAsFile, OnlyAssets, FullChecker,
                FullInstaller, ExeRelease, ExeOnly}

\* top levels: wrapped archives, flat archives, and others
TopShapes == {Listing({"repo-abc123"}, {}),
              Listing({"repo-abc123", "extra"}, {}),
              Listing({"repo-abc123"}, {"README.md"}),
              Listing({}, {"README.md"}),
              Empty, Minimal, FullInstaller, ExeRelease}

\* an extraction directory: its listing and the listing of each directory
\* in it
Extractions ==
    UNION {{[top |-> t, child |-> c] :
              c \in [{n \in EntryNames : t[n] = "dir"} -> ChildShapes]} :
           t \in TopShapes}

\* UpdateChecker._detect_project_root(directory)
CheckerDetectProjectRoot(l) ==
    /\ \A folder \in {"assets", "docs", "ImageMagick", "setup", "src"} :
          l[folder] = "dir"
    /\ \A file \in {"latestVersion.txt", "LICENSE", "README.md"} :
          l[file] = "file"

\* Updater._detect_project_root(directory, exe_mode=False)
InstallerDetectProjectRoot(l) ==
    /\ \A folder \in {"assets", "ImageMagick", "src"} : l[folder] = "dir"
    /\ \A file \in {"latestVersion.txt", "LICENSE", "README.md"} :
          l[file] = "file"

\* UpdateUtilities.find_exe_files(directory)
FindExeFiles(l) == {n \in EntryNames : l[n] = "file" /\ n = "app.exe"}

\* a first phase that asks the single directory for the whole project
\* structure
SingleCandidateStrict(impl, e) ==
    {n \in ListDir(e.top) :
        /\ Cardinality(ListDir(e.top)) = 1
        /\ e.top[n] = "dir"
        /\ CheckerDetectProjectRoot(e.child[n])}

\* the first phase of _find_github_zipball_root: exactly one entry, a
\* directory, whose listing holds the names asked for (all of src and
\* README.md in UpdateChecker, any of four indicators in Updater).  The set
\* of roots it returns: empty or one name.
SingleCandidate(impl, e) ==
    {n \in ListDir(e.top) :
        /\ Cardinality(ListDir(e.top)) = 1
        /\ e.top[n] = "dir"
        /\ IF impl = "checker"
           THEN {"src", "README.md"} \subseteq ListDir(e.child[n])
           ELSE {"src", "README.md", "assets", "ImageMagick"}
                    \cap ListDir(e.child[n]) # {}}

\* the second phase: the loop over the listing returns the first directory
\* that _detect_project_root accepts; os.listdir gives no order, so any
\* accepted directory may be the one returned
FallbackScan(impl, e) ==
    {n \in ListDir(e.top) :
        /\ e.top[n] = "dir"
        /\ IF impl = "checker"
           THEN CheckerDetectProjectRoot(e.child[n])
           ELSE InstallerDetectProjectRoot(e.child[n])}

\* _find_github_zipball_root(extract_dir): the roots it may return; "none"
\* stands for None
FindGithubZipballRoot(impl, e) ==
    IF SingleCandidate(impl, e) # {} THEN SingleCandidate(impl, e)
    ELSE IF FallbackScan(impl, e) # {} THEN FallbackScan(impl, e)
    ELSE {"none"}

\* Updater.update_exe: release_root is extract_dir ("."), or the single
\* top-level directory when its listing holds a name ending in .exe; no .exe
\* file in release_root raises ("none")
ExeReleaseRoot(e) ==
    LET single == {n \in ListDir(e.top) :
                      /\ Cardinality(ListDir(e.top)) = 1
                      /\ e.top[n] = "dir"
                      /\ "app.exe" \in ListDir(e.child[n])}
        rootListing == IF single = {} THEN e.top
                       ELSE e.child[CHOOSE n \in single : TRUE]
    IN IF FindExeFiles(rootListing) = {} THEN {"none"}
       ELSE IF single = {} THEN {"."} ELSE single

LocatorImpls == {"checker", "installer", "installer_exe"}

FindRootCalls ==
    {[fn |-> "find_root", impl |-> i, e |-> e] :
        i \in LocatorImpls, e \in Extractions}

\* one call of the search
CallFindRoot ==
    /\ call.fn = "find_root"
    /\ ~ret.done
    /\ \E r \in (IF call.impl = "installer_exe" THEN ExeReleaseRoot(call.e)
                 ELSE FindGithubZipballRoot(call.impl, call.e)) :
         ret' = [done |-> TRUE, value |-> r]
    /\ UNCHANGED <<call, uiVars, reentryVars, sessionVars, fileVars, mergeVars,
                   scriptVars>>

\* ---- the wait and the retry wrappers ----

\* what the path holds in a direct call: nothing, a file, a directory
PathStates == {"none", "old", "dir"}

WaitCalls ==
    {[fn |-> "wait", c |-> c, env |-> env, n |-> n] :
        c \in PathStates, env \in Envs, n \in 0..MaxAttemptsArg}

RetryCalls ==
    {[fn |-> "retry", impl |-> i, c |-> c, env |-> env, n |-> n] :
        i \in {"safe", "copy"}, c \in {"none", "old"}, env \in Envs,
        n \in 0..MaxAttemptsArg}

\* Utilities.wait_for_file_unlock(file_path, max_attempts, delay), first poll
\* at observation 1
CallWaitForFileUnlock ==
    /\ call.fn = "wait"
    /\ ~ret.done
    /\ ret' = [done |-> TRUE,
               value |-> WaitForFileUnlock(call.c, call.env, 1, call.n)]
    /\ UNCHANGED <<call, uiVars, reentryVars, sessionVars, fileVars, mergeVars,
                   scriptVars>>

\* Utilities.safe_file_operation(shutil.copy2, src, dst, max_attempts=n), or
\* Updater._copy_file_with_retry(src, dst, max_attempts=n), first attempt at
\* observation 1
CallRetry ==
    /\ call.fn = "retry"
    /\ ~ret.done
    /\ ret' = [done |-> TRUE,
               value |-> IF call.impl = "safe"
                         THEN SafeFileOperation(call.c, call.env, 1, call.n)
                         ELSE CopyFileWithRetry(call.c, call.env, call.n)]
    /\ UNCHANGED <<call, uiVars, reentryVars, sessionVars, fileVars, mergeVars,
                   scriptVars>>

\* ---- the version check ----

\* characters as code points: newline, space, ".", "1", "2"
Whitespace == {10, 32}

VersionChars == {46, 49, 50}

\* AllSeqs(S, n): the sequences over S of length at most n
RECURSIVE AllSeqs(_, _)
AllSeqs(S, n) ==
    IF n = 0 THEN {<<>>}
    ELSE LET shorter == AllSeqs(S, n - 1) IN
         shorter \cup {Append(q, x) : q \in shorter, x \in S}

\* str.strip(): leading and trailing whitespace removed
RECURSIVE LStrip(_)
LStrip(str) ==
    IF str # <<>> /\ Head(str) \in Whitespace THEN LStrip(Tail(str)) ELSE str

RECURSIVE RStrip(_)
RStrip(str) ==
    IF str # <<>> /\ str[Len(str)] \in Whitespace
    THEN RStrip(SubSeq(str, 1, Len(str) - 1))
    ELSE str

Strip(str) == RStrip(LStrip(str))

\* Python's a > b on str: the first differing code point decides; a string
\* is greater than each of its proper prefixes
RECURSIVE PyGreater(_, _)
PyGreater(a, b) ==
    IF a = <<>> THEN FALSE
    ELSE IF b = <<>> THEN TRUE
    ELSE IF Head(a) # Head(b) THEN Head(a) > Head(b)
    ELSE PyGreater(Tail(a), Tail(b))

\* a test that also takes an equal version for a newer one
IsNewerOrSame(latest, current) == latest = current \/ PyGreater(latest, current)

\* the test `latest_version > current_version` of check_for_updates
IsNewer(latest, current) == PyGreater(latest, current)

\* the text of latestVersion.txt as served: a version string, bare, with a
\* trailing newline, or with a leading one
ResponseBodies ==
    UNION {{v, v \o <<10>>, <<10>> \o v} : v \in AllSeqs(VersionChars, MaxVersionLen)}

CheckCalls ==
    {[fn |-> "check_for_updates", current |-> cur, body |-> body,
      fetch |-> f, auto |-> a, answer |-> y, frozen |-> z] :
        cur \in AllSeqs(VersionChars, MaxVersionLen),
        body \in ResponseBodies,
        f \in {"ok", "timeout", "status"}, a \in BOOLEAN, y \in BOOLEAN,
        z \in BOOLEAN}

\* UpdateChecker.check_for_updates(current_version, auto_update): a failing
\* request is caught and printed; otherwise latest_version is the stripped
\* body, and when it is newer the update is started at once (auto_update) or
\* after the user said yes to the dialog
CallCheckForUpdates ==
    /\ call.fn = "check_for_updates"
    /\ ~ret.done
    /\ LET latest == Strip(call.body)
           offered == call.fetch = "ok" /\ IsNewer(latest, call.current)
           go == offered /\ (call.auto \/ call.answer)
       IN ret' = [done |-> TRUE,
                  offered |-> offered,
                  asked |-> offered /\ ~call.auto,
                  started |-> IF ~go THEN "none"
                              ELSE IF call.frozen THEN "update_exe"
                              ELSE "update_source"]
    /\ UNCHANGED <<call, uiVars, reentryVars, sessionVars, fileVars, mergeVars,
                   scriptVars>>

\* ---- one call ----

\* ---- the choice between git pull and the archive download ----

PathCalls ==
    {[fn |-> "update_path", client |-> c, git |-> g, github |-> h, ignore |-> i] :
        c \in BOOLEAN, g \in EntryKinds, h \in EntryKinds, i \in EntryKinds}

\* UpdateChecker.update_source up to the branch on the checkout
CallChooseUpdatePath ==
    /\ call.fn = "update_path"
    /\ ~ret.done
    /\ ret' = [done |-> TRUE,
               value |-> IF UsesGitPull(call.client, call.git, call.github,
                                        call.ignore)
                         THEN "pull" ELSE "download"]
    /\ UNCHANGED <<call, uiVars, reentryVars, sessionVars, fileVars, mergeVars,
                   scriptVars>>

\* ---- the wait for the application to close ----

ClosureCalls ==
    {[fn |-> "closure_wait", c |-> c, env |-> env, pass |-> d] :
        c \in {"none", "old"}, env \in Envs, d \in PassSeconds}

\* Updater.update_exe from the wait to the next step
CallWaitForMainAppClosure ==
    /\ call.fn = "closure_wait"
    /\ ~ret.done
    /\ LET w == WaitForMainAppClosure(call.c, call.env, call.pass) IN
       ret' = [done |-> TRUE, value |-> w, next |-> AfterClosureWait(w.closed)]
    /\ UNCHANGED <<call, uiVars, reentryVars, sessionVars, fileVars, mergeVars,
                   scriptVars>>

\* ---- the choice of the new executable ----

\* file names the walk of the extracted tree may meet
FoundNames == {"app.exe", "App.EXE", "tool.exe", "notes.txt"}

\* str.lower()
Lower(name) == IF name = "App.EXE" THEN "app.exe" ELSE name

\* file.lower().endswith(".exe")
IsExeName(name) == Lower(name) \in {"app.exe", "tool.exe"}

\* a variant whose second branch lacks the test `new_exe_path is None`: each
\* executable found replaces the choice
RECURSIVE SelectLoopLast(_, _, _, _)
SelectLoopLast(files, i, current, chosen) ==
    IF i > Len(files) THEN chosen
    ELSE IF ~IsExeName(files[i])
    THEN SelectLoopLast(files, i + 1, current, chosen)
    ELSE SelectLoopLast(files, i + 1, current, i)

SelectNewExeLast(files, current) == SelectLoopLast(files, 1, current, 0)

\* UpdateChecker.update_exe, the loop over os.walk(extract_dir): files is
\* what the walk yields, in its order; chosen is the place in it of
\* new_exe_path, 0 for None
\*   if file.lower() == current_exe_name: new_exe_path = full_path
\*   elif new_exe_path is None:           new_exe_path = full_path
RECURSIVE SelectLoop(_, _, _, _)
SelectLoop(files, i, current, chosen) ==
    IF i > Len(files) THEN chosen
    ELSE IF ~IsExeName(files[i])
    THEN SelectLoop(files, i + 1, current, chosen)
    ELSE IF Lower(files[i]) = Lower(current)
    THEN SelectLoop(files, i + 1, current, i)
    ELSE IF chosen = 0
    THEN SelectLoop(files, i + 1, current, i)
    ELSE SelectLoop(files, i + 1, current, chosen)

SelectNewExe(files, current) == SelectLoop(files, 1, current, 0)

\* if not new_exe_path: error, rmtree, set_progress(0), showerror, return;
\* otherwise the staging follows
AfterExeSearch(chosen) == IF chosen = 0 THEN "Failed" ELSE "Installing"

SelectCalls ==
    {[fn |-> "select_exe", files |-> f, current |-> c] :
        f \in AllSeqs(FoundNames, MaxFound), c \in {"app.exe", "App.EXE"}}

CallSelectNewExe ==
    /\ call.fn = "select_exe"
    /\ ~ret.done
    /\ LET chosen == SelectNewExe(call.files, call.current) IN
       ret' = [done |-> TRUE, value |-> chosen, next |-> AfterExeSearch(chosen)]
    /\ UNCHANGED <<call, uiVars, reentryVars, sessionVars, fileVars, mergeVars,
                   scriptVars>>

\* ---- the choice of the release asset ----

\* the longest asset list of a release
MaxAssets == 3

\* asset names a release may list
AssetNames == {"app.7z", "lib.7z", "APP.7Z", "app.zip"}

\* str.lower() of an asset name
LowerAsset(name) == IF name = "APP.7Z" THEN "app.7z" ELSE name

\* name.endswith(".7z")
EndsWith7z(name) == name \in {"app.7z", "lib.7z"}

\* the test an implementation puts to an asset name:
\*   UpdateChecker.update_exe   asset["name"].endswith(".7z")
\*   Updater.update_exe         asset['name'].lower().endswith('.7z')
AssetMatches(impl, name) ==
    IF impl = "checker" THEN EndsWith7z(name) ELSE EndsWith7z(LowerAsset(name))

\* for asset in info.get("assets", []): if <test>: z7_asset = asset; break
\* the place of the asset chosen, 0 for None
RECURSIVE AssetLoop(_, _, _)
AssetLoop(impl, assets, i) ==
    IF i > Len(assets) THEN 0
    ELSE IF AssetMatches(impl, assets[i]) THEN i
    ELSE AssetLoop(impl, assets, i + 1)

SelectAsset(impl, assets) == AssetLoop(impl, assets, 1)

\* if not z7_asset: the checker logs, resets the progress, shows the error
\* and returns, the installer raises; both before the download request and
\* before mkdtemp / NamedTemporaryFile
AfterAssetSearch(chosen) == IF chosen = 0 THEN "Failed" ELSE "Downloading"

AssetCalls ==
    {[fn |-> "select_asset", impl |-> m, assets |-> a] :
        m \in {"checker", "installer"}, a \in AllSeqs(AssetNames, MaxAssets)}

CallSelectAsset ==
    /\ call.fn = "select_asset"
    /\ ~ret.done
    /\ LET chosen == SelectAsset(call.impl, call.assets) IN
       ret' = [done |-> TRUE, value |-> chosen, next |-> AfterAssetSearch(chosen)]
    /\ UNCHANGED <<call, uiVars, reentryVars, sessionVars, fileVars, mergeVars,
                   scriptVars>>

\* ---- the retry wrappers around an operation that raises ----

\* the classes of the exceptions an invocation may raise: PermissionError
\* (the file is locked, or access is denied), another OSError (the disk is
\* full), and an exception that is no OSError
ErrorClasses == {"PermissionError", "OSError", "ValueError"}

\* what one invocation of the wrapped operation does
RetryOutcomes == {"ok"} \cup ErrorClasses

\* a variant whose except clause names PermissionError only
CaughtLockOnly(cls) == cls = "PermissionError"

\* except (OSError, IOError, PermissionError) in safe_file_operation,
\* except (PermissionError, OSError) in _copy_file_with_retry: IOError is
\* OSError and PermissionError is a subclass of it
Caught(cls) == cls \in {"OSError", "PermissionError"}

\* the loops of both wrappers over range(max_attempts), outcomes[i] being what
\* the i-th invocation does.  An exception the except clause does not name
\* leaves the loop at once.  After the loop safe_file_operation executes
\* raise last_exception, which with max_attempts = 0 is raise None, a
\* TypeError; _copy_file_with_retry raises the last exception inside the loop
\* and returns None when the loop makes no iteration.
RECURSIVE RetryLoop(_, _, _, _)
RetryLoop(impl, outcomes, attempt, n) ==
    IF attempt >= n
    THEN [result |-> IF impl = "safe" THEN "raise" ELSE "ok",
          error |-> IF impl = "safe" THEN "TypeError" ELSE "none",
          calls |-> attempt, sleeps |-> attempt, performed |-> FALSE]
    ELSE LET o == outcomes[attempt + 1] IN
         IF o = "ok"
         THEN [result |-> "ok", error |-> "none", calls |-> attempt + 1,
               sleeps |-> attempt, performed |-> TRUE]
         ELSE IF Caught(o) /\ attempt < n - 1
         THEN RetryLoop(impl, outcomes, attempt + 1, n)
         ELSE [result |-> "raise", error |-> o, calls |-> attempt + 1,
               sleeps |-> attempt, performed |-> FALSE]

RetryOperation(impl, outcomes, n) == RetryLoop(impl, outcomes, 0, n)

OperationCalls ==
    {[fn |-> "retry_op", impl |-> i, outcomes |-> o, n |-> n] :
        i \in {"safe", "copy"}, o \in [1..MaxAttemptsArg -> RetryOutcomes],
        n \in 0..MaxAttemptsArg}

CallRetryOperation ==
    /\ call.fn = "retry_op"
    /\ ~ret.done
    /\ ret' = [done |-> TRUE,
               value |-> RetryOperation(call.impl, call.outcomes, call.n)]
    /\ UNCHANGED <<call, uiVars, reentryVars, sessionVars, fileVars, mergeVars,
                   scriptVars>>

CallsInit ==
    /\ call \in FindRootCalls \cup WaitCalls \cup RetryCalls \cup CheckCalls
                \cup PathCalls \cup ClosureCalls \cup SelectCalls
                \cup AssetCalls \cup OperationCalls
    /\ ret = [done |-> FALSE]
    /\ UiParked /\ ReentryParked
    /\ SessionParked /\ FilesParked /\ MergeParked /\ ScriptParked

CallsNext ==
    \/ CallFindRoot
    \/ CallWaitForFileUnlock
    \/ CallRetry
    \/ CallCheckForUpdates
    \/ CallChooseUpdatePath
    \/ CallWaitForMainAppClosure
    \/ CallSelectNewExe
    \/ CallSelectAsset
    \/ CallRetryOperation

SpecCalls == CallsInit /\ [][CallsNext]_vars

\* ------------------------------------------------------------------------
\* Properties of the calls
\* ------------------------------------------------------------------------

\* the signature a root has to show: in source mode a src directory and a
\* README.md file, in executable mode an assets directory and an .exe file
SatisfiesSignature(impl, l) ==
    IF impl = "installer_exe"
    THEN l["assets"] = "dir" /\ l["app.exe"] = "file"
    ELSE l["src"] = "dir" /\ l["README.md"] = "file"

\* the extraction directory holds one entry only, a directory that shows the
\* signature
WrappedArchive(impl, e) ==
    \E n \in EntryNames :
        /\ ListDir(e.top) = {n}
        /\ e.top[n] = "dir"
        /\ SatisfiesSignature(impl, e.child[n])

\* the top level itself shows the signature and holds no wrapper directory
FlatArchive(impl, e) ==
    /\ SatisfiesSignature(impl, e.top)
    /\ ListDir(e.top) \cap WrapperNames = {}

\* C12: the search applied to an extraction directory whose only entry is a
\* wrapper directory showing the mode's signature returns that directory
WrapperIsReturned ==
    (call.fn = "find_root" /\ ret.done /\ WrappedArchive(call.impl, call.e))
        => ListDir(call.e.top) = {ret.value}

\* a wrapped source archive has been searched
WrapperSearched ==
    /\ call.fn = "find_root" /\ ret.done
    /\ call.impl = "checker"
    /\ WrappedArchive(call.impl, call.e)
    /\ ret.value = "repo-abc123"

\* C13: the search applied to a flat archive whose top level shows the
\* mode's signature returns a root
FlatArchiveLocated ==
    (call.fn = "find_root" /\ ret.done /\ FlatArchive(call.impl, call.e))
        => ret.value # "none"

\* the extraction directory holds one entry only, a directory
SingleDirectoryTop(e) ==
    \E n \in EntryNames : ListDir(e.top) = {n} /\ e.top[n] = "dir"

\* C25: the single top-level directory is accepted as the root if and only if
\* its listing shows the mode's signature: in source mode a src directory
\* and a README.md file, in executable mode an assets directory and an .exe
\* file.
SingleDirectoryAcceptedIffSignature ==
    (call.fn = "find_root" /\ ret.done /\ SingleDirectoryTop(call.e)) =>
        LET n == CHOOSE m \in EntryNames : ListDir(call.e.top) = {m} IN
        (ret.value = n) <=> SatisfiesSignature(call.impl, call.e.child[n])

\* C26: the fallback scan applies to each top-level directory the predicate
\* the first phase applies: a single top-level directory is accepted by one
\* phase exactly when the other accepts it, and when the first phase fails
\* the scan returns a directory the first phase's predicate accepts, if
\* there is one.
FallbackAppliesSamePredicate ==
    (call.fn = "find_root" /\ ret.done /\ call.impl # "installer_exe") =>
        /\ SingleDirectoryTop(call.e) =>
              SingleCandidate(call.impl, call.e) = FallbackScan(call.impl, call.e)
        /\ (\E n \in ListDir(call.e.top) :
                /\ call.e.top[n] = "dir"
                /\ SatisfiesSignature(call.impl, call.e.child[n]))
              => /\ ret.value \in ListDir(call.e.top)
                 /\ SatisfiesSignature(call.impl, call.e.child[ret.value])

\* C27: source mode takes the git pull path if and only if a git client is
\* on the path and the project root holds the .git directory, the .github
\* directory and the .gitignore file; in every other case it takes the
\* download path, which is not an error.
PullIffGitCheckout ==
    (call.fn = "update_path" /\ ret.done) =>
        /\ ret.value \in {"pull", "download"}
        /\ ret.value = "pull" <=>
              (/\ call.client
               /\ call.git = "dir"
               /\ call.github = "dir"
               /\ call.ignore = "file")

PullPathTaken ==
    /\ call.fn = "update_path" /\ ret.done
    /\ call.client /\ call.git = "dir" /\ call.github = "dir"
    /\ call.ignore = "file"
    /\ ret.value = "pull"

\* the polls the closure wait can make before its timeout
ClosurePollBudget(pass) ==
    (MaxWaitSeconds + pass - 1) \div pass

NewExeChosenByName ==
    (call.fn = "select_exe" /\ ret.done) =>
        LET exes == {i \in 1..Len(call.files) : IsExeName(call.files[i])}
            matches == {i \in exes :
                           Lower(call.files[i]) = Lower(call.current)}
        IN /\ matches # {} => ret.value \in matches
           /\ (matches = {} /\ exes # {}) =>
                 (ret.value \in exes /\ \A i \in exes : ret.value <= i)
           /\ exes = {} <=> ret.next = "Failed"

MatchChosenOverEarlierExe ==
    /\ call.fn = "select_exe" /\ ret.done
    /\ call.files = <<"tool.exe", "App.EXE", "tool.exe">>
    /\ call.current = "app.exe"
    /\ ret.value = 2

\* C15: a wait that first finds the path unlocked at its k-th poll, k <= n,
\* returns true at that poll after k - 1 sleeps; a wait that finds the path
\* locked at each of its n polls returns false after n polls
WaitPollsAsSpecified ==
    (call.fn = "wait" /\ ret.done) =>
        LET n == call.n
            UnlockedAt(k) == ~IsFileLocked(call.c, call.env, k)
            firsts == {k \in 1..n : /\ UnlockedAt(k)
                                    /\ \A j \in 1..(k - 1) : ~UnlockedAt(j)}
        IN IF firsts # {}
           THEN \A k \in firsts : /\ ret.value.unlocked
                                  /\ ret.value.polls = k
                                  /\ ret.value.sleeps = k - 1
           ELSE ~ret.value.unlocked /\ ret.value.polls = n

\* a file locked for three polls and then released has been waited for
WaitedThreePolls ==
    /\ call.fn = "wait" /\ ret.done
    /\ call.c = "old" /\ call.env.lock = 3 /\ call.n = 4
    /\ ret.value.unlocked
    /\ ret.value.polls = 4

\* C16: a retry wrapper invokes the operation at most maxAttempts times; it
\* stops at the first invocation that succeeds, having slept once after each
\* failed one; when all of maxAttempts >= 1 invocations fail it has slept
\* maxAttempts - 1 times and raises the error of the last invocation
RetryAsSpecified ==
    (call.fn = "retry" /\ ret.done) =>
        LET n == call.n
            r == ret.value
            Fails(i) == AttemptFails(call.c, call.env, 1 + i, i)
            oks == {i \in 0..(n - 1) : /\ ~Fails(i)
                                       /\ \A j \in 0..(i - 1) : Fails(j)}
        IN /\ r.calls <= n
           /\ \A i \in oks : /\ r.result = "ok"
                             /\ r.copied
                             /\ r.calls = i + 1
                             /\ r.sleeps = i
           /\ (oks = {} /\ n >= 1) =>
                 /\ r.result = "raise"
                 /\ r.calls = n
                 /\ r.sleeps = n - 1
                 /\ r.locked = (IsFile(call.c) /\ n <= call.env.lock)

\* all three attempts of a call of safe_file_operation have failed
RetryExhausted ==
    /\ call.fn = "retry" /\ ret.done
    /\ call.impl = "safe" /\ call.n = 3
    /\ call.env.faults >= 3
    /\ ret.value.result = "raise"
    /\ ret.value.calls = 3

\* raw string ordering, said without recursion: a is greater than b when, at
\* the first position where they differ, a has the greater character, or b is
\* a proper prefix of a
LexGreater(a, b) ==
    \E i \in 1..Len(a) :
        /\ \A j \in 1..(i - 1) : j <= Len(b) /\ a[j] = b[j]
        /\ (i > Len(b) \/ a[i] > b[i])

\* C17: check_for_updates enters the update path if and only if the latest
\* version string it fetched is strictly greater than the current one under
\* raw string ordering; when it is equal or smaller no update flow is
\* started
UpdateIffStrictlyGreater ==
    (call.fn = "check_for_updates" /\ ret.done) =>
        LET greater == LexGreater(Strip(call.body), call.current) IN
        /\ ret.offered <=> (call.fetch = "ok" /\ greater)
        /\ ~greater => ret.started = "none"

\* the served version "2." against the current "1." has started an update
NewerVersionStarted ==
    /\ call.fn = "check_for_updates" /\ ret.done
    /\ call.current = <<49, 46>>
    /\ call.body = <<50, 46, 10>>
    /\ ret.offered
    /\ ret.started = "update_source"

\* ---------------------------------------------------------------------------
\* The worker thread and the window's thread.
\*   UpdateChecker.update_source / update_exe:
\*       console = UpdateWindow(...)        (a tk.Toplevel)
\*       threading.Thread(target=do_update, daemon=True).start()
\*   update_installer.main():
\*       updater = Updater(use_gui=True)    (its UpdateWindow is a tk.Tk)
\*       threading.Thread(target=run_update, daemon=True).start()
\*       updater.console.window.mainloop()
\* ---------------------------------------------------------------------------

Hosts == {"checker", "installer"}

\* the worker's positions while the update is under way
WorkerStages == {"Downloading", "Extracting", "Installing"}

\* one registered callback: _set_progress_safe(value), _log_safe(...) of an
\* error line, or _enable_restart_safe(callback)
Callback(kind, value) == [kind |-> kind, value |-> value]

\* set_progress(value, ...) of the worker: window.after(0, _set_progress_safe, ...)
AfterSetProgress(q, value) == Append(q, Callback("progress", value))

\* the Tk interpreter of the window can still take a call: the Toplevel of
\* the application lives in the application's interpreter, the tk.Tk() window
\* of the standalone updater takes its interpreter with it when destroyed
InterpreterAlive == host = "checker" \/ window = "open"

\* threading.Thread(target=..., daemon=True).start()
StartWorker ==
    /\ host \in Hosts
    /\ wpc = "Idle"
    /\ process = "alive"
    /\ wpc' = "Downloading"
    /\ UNCHANGED <<host, window, mainloop, process, queue, bar, restartBtn,
                   direct, dialog>>
    /\ UNCHANGED <<callVars, reentryVars, sessionVars, fileVars, mergeVars,
                   scriptVars>>

\* the worker finishes a stage and reports it:
\*   Downloading  set_progress(60, ...)
\*   Extracting   set_progress(70, ...)
\*   Installing   set_progress(100, ...); enable_restart(callback)
\* each through window.after(0, ...).  When the call of window.after raises
\* (the interpreter is gone), the handler's own log call raises again and the
\* thread ends with that exception.
WorkerReports ==
    /\ host \in Hosts
    /\ wpc \in WorkerStages
    /\ process = "alive"
    /\ IF InterpreterAlive
       THEN CASE wpc = "Downloading" ->
                   /\ queue' = AfterSetProgress(queue, 60)
                   /\ wpc' = "Extracting"
              [] wpc = "Extracting" ->
                   /\ queue' = AfterSetProgress(queue, 70)
                   /\ wpc' = "Installing"
              [] OTHER ->
                   /\ queue' = Append(AfterSetProgress(queue, 100),
                                      Callback("restart", 0))
                   /\ wpc' = "AwaitingRestart"
       ELSE /\ wpc' = "Crashed"
            /\ UNCHANGED queue
    /\ UNCHANGED <<host, window, mainloop, process, bar, restartBtn, direct, dialog>>
    /\ UNCHANGED <<callVars, reentryVars, sessionVars, fileVars, mergeVars,
                   scriptVars>>

\* an exception in a stage reaches the handler, run by the worker thread:
\*   console.log("... failed: ...", "error")     window.after(0, _log_safe, ...)
\*   console.set_progress(0, "Update failed!")   window.after(0, ...)
\*   messagebox.showerror("Update Failed", ...)  called by the worker itself;
\*                                               it returns when the dialog
\*                                               is dismissed
WorkerFails ==
    /\ host \in Hosts
    /\ wpc \in WorkerStages
    /\ process = "alive"
    /\ IF InterpreterAlive
       THEN /\ queue' = AfterSetProgress(Append(queue, Callback("log", 0)), 0)
            /\ direct' = TRUE
            /\ dialog' = "open"
            /\ wpc' = "Notifying"
       ELSE /\ wpc' = "Crashed"
            /\ UNCHANGED <<queue, direct, dialog>>
    /\ UNCHANGED <<host, window, mainloop, process, bar, restartBtn>>
    /\ UNCHANGED <<callVars, reentryVars, sessionVars, fileVars, mergeVars,
                   scriptVars>>

\* the user dismisses the dialog: showerror returns, the handler ends and
\* with it the thread's function
DismissDialog ==
    /\ host \in Hosts
    /\ wpc = "Notifying"
    /\ dialog = "open"
    /\ process = "alive"
    /\ dialog' = "dismissed"
    /\ wpc' = "Failed"
    /\ UNCHANGED <<host, window, mainloop, process, queue, bar, restartBtn, direct>>
    /\ UNCHANGED <<callVars, reentryVars, sessionVars, fileVars, mergeVars,
                   scriptVars>>

\* the main loop runs the oldest registered callback: _log_safe,
\* _set_progress_safe or _enable_restart_safe.  On a destroyed window the
\* widget commands fail and nothing is shown (update_installer's versions
\* swallow the exception).
Dispatch ==
    /\ host \in Hosts
    /\ queue # <<>>
    /\ mainloop = "running"
    /\ process = "alive"
    /\ queue' = Tail(queue)
    /\ LET cb == Head(queue) IN
       IF window = "open"
       THEN /\ bar' = IF cb.kind = "progress" THEN cb.value ELSE bar
            /\ restartBtn' = (restartBtn \/ cb.kind = "restart")
       ELSE UNCHANGED <<bar, restartBtn>>
    /\ UNCHANGED <<host, wpc, window, mainloop, process, direct, dialog>>
    /\ UNCHANGED <<callVars, reentryVars, sessionVars, fileVars, mergeVars,
                   scriptVars>>

\* the Close button (command=self.close, never disabled):
\*   self.window.grab_release(); self.window.destroy()
\* destroying the tk.Tk() window of the standalone updater ends its mainloop()
PressClose ==
    /\ host \in Hosts
    /\ window = "open"
    /\ mainloop = "running"
    /\ process = "alive"
    /\ window' = "destroyed"
    /\ mainloop' = IF host = "installer" THEN "ended" ELSE mainloop
    /\ UNCHANGED <<host, wpc, process, queue, bar, restartBtn, direct, dialog>>
    /\ UNCHANGED <<callVars, reentryVars, sessionVars, fileVars, mergeVars,
                   scriptVars>>

\* update_installer.main() after updater.console.window.mainloop() has
\* returned: main() returns and the interpreter exits; the worker is a daemon
\* thread and ends with the process wherever it is
MainReturns ==
    /\ host = "installer"
    /\ mainloop = "ended"
    /\ process = "alive"
    /\ process' = "exited"
    /\ wpc' = IF wpc \in WorkerStages \cup {"Notifying"} THEN "Killed" ELSE wpc
    /\ UNCHANGED <<host, window, mainloop, queue, bar, restartBtn, direct, dialog>>
    /\ UNCHANGED <<callVars, reentryVars, sessionVars, fileVars, mergeVars,
                   scriptVars>>

\* the restart button, once enabled: the callback closes the window and
\* calls sys.exit(0)
PressRestart ==
    /\ host \in Hosts
    /\ restartBtn
    /\ window = "open"
    /\ mainloop = "running"
    /\ process = "alive"
    /\ window' = "destroyed"
    /\ mainloop' = "ended"
    /\ process' = "exited"
    /\ UNCHANGED <<host, wpc, queue, bar, restartBtn, direct, dialog>>
    /\ UNCHANGED <<callVars, reentryVars, sessionVars, fileVars, mergeVars,
                   scriptVars>>

UiInit ==
    /\ host \in Hosts
    /\ wpc = "Idle" /\ window = "open" /\ mainloop = "running"
    /\ process = "alive" /\ queue = <<>> /\ bar = 0
    /\ restartBtn = FALSE /\ direct = FALSE /\ dialog = "none"
    /\ CallsParked /\ ReentryParked
    /\ SessionParked /\ FilesParked /\ MergeParked /\ ScriptParked

UiNext ==
    \/ StartWorker
    \/ WorkerReports
    \/ WorkerFails
    \/ DismissDialog
    \/ Dispatch
    \/ PressClose
    \/ MainReturns
    \/ PressRestart

SpecUi == UiInit /\ [][UiNext]_vars

\* C19: once started the worker is never stopped or aborted by an event of
\* the window's thread (the Close button, the end of the main loop): it is
\* under way until it reaches AwaitingRestart or Failed.
WorkerNeverAborted == wpc \notin {"Killed", "Crashed"}

\* C20: every notification of the worker is registered through window.after
\* and run by the window's thread; the worker calls Tk in no other way and
\* does not wait for a notification to be handled.
NotificationsOnlyEnqueued == ~direct /\ wpc # "Notifying"


\* ------------------------------------------------------------------------
\* The release asset
\* ------------------------------------------------------------------------

\* the place of the first name of the list that ends in ".7z", 0 when there
\* is none
FirstSevenZ(assets) ==
    IF \E i \in 1..Len(assets) : EndsWith7z(assets[i])
    THEN CHOOSE i \in 1..Len(assets) :
            /\ EndsWith7z(assets[i])
            /\ \A j \in 1..(i - 1) : ~EndsWith7z(assets[j])
    ELSE 0

\* C31: in executable mode the asset chosen is the first of the release's
\* list whose name ends in .7z, and a release without one fails the session
\* before the download
FirstSevenZAssetChosen ==
    (call.fn = "select_asset" /\ ret.done) =>
        /\ ret.value = FirstSevenZ(call.assets)
        /\ (ret.next = "Failed") = (FirstSevenZ(call.assets) = 0)

\* ------------------------------------------------------------------------
\* The range of the progress values
\* ------------------------------------------------------------------------

\* C32: every value passed to set_progress during a session lies in 0..100,
\* whatever the declared size and the number of chunks received
ProgressWithinRange == ~outOfRange

\* ------------------------------------------------------------------------
\* Network failures
\* ------------------------------------------------------------------------

\* C33: a network failure at the metadata fetch or at the archive download
\* is reported and ends the update, and the session has by then created,
\* changed or removed nothing under the install/project directory
NetworkFailureLeavesRootUntouched ==
    [][(pc \in {"FetchingMetadata", "Downloading"} /\ pc' = "Failed")
          => (errorLogged' /\ ~rootTouched' /\ ~updaterBackup')]_vars

\* ------------------------------------------------------------------------
\* Several calls of UpdateChecker.update_exe in one process
\*
\* update_exe() is a static method: each call makes an UpdateWindow of its
\* own and starts a daemon thread running do_update.  Every worker takes
\* exe_path from sys.executable, so staged_exe (<exe>.new) and bat_path
\* (<exe>.update.bat) are the same paths in all of them.
\* ------------------------------------------------------------------------

\* the positions of a worker in which its session is under way
ActiveWorker == {"fetching", "staging", "scripting"}

\* a variant that starts no worker while a session is under way
UpdateExeInvokedGuarded ==
    /\ invocations < MaxInvocations
    /\ invocations' = invocations + 1
    /\ workers' = IF \E w \in 1..MaxInvocations : workers[w] \in ActiveWorker
                  THEN workers
                  ELSE [workers EXCEPT ![invocations + 1] = "fetching"]
    /\ UNCHANGED overlapStaged
    /\ UNCHANGED <<callVars, uiVars, sessionVars, fileVars, mergeVars, scriptVars>>

\* update_exe(): console = UpdateWindow(...);
\* threading.Thread(target=do_update, daemon=True).start()
UpdateExeInvoked ==
    /\ invocations < MaxInvocations
    /\ invocations' = invocations + 1
    /\ workers' = [workers EXCEPT ![invocations + 1] = "fetching"]
    /\ UNCHANGED overlapStaged
    /\ UNCHANGED <<callVars, uiVars, sessionVars, fileVars, mergeVars, scriptVars>>

\* do_update up to the choice of the new executable: metadata, download,
\* extraction, search; then safe_file_operation(shutil.copy2, new_exe_path,
\* staged_exe) starts to write <exe>.new
WorkerBeginsStaging ==
    /\ \E w \in 1..MaxInvocations :
         /\ workers[w] = "fetching"
         /\ workers' = [workers EXCEPT ![w] = "staging"]
         /\ overlapStaged' =
              (overlapStaged \/ \E v \in 1..MaxInvocations : workers[v] = "staging")
    /\ UNCHANGED invocations
    /\ UNCHANGED <<callVars, uiVars, sessionVars, fileVars, mergeVars, scriptVars>>

\* the copy is complete and <exe>.new exists:
\* with open(bat_path, "w") as f: f.write(...) starts to write the script
WorkerBeginsScript ==
    /\ \E w \in 1..MaxInvocations :
         /\ workers[w] = "staging"
         /\ workers' = [workers EXCEPT ![w] = "scripting"]
    /\ UNCHANGED <<invocations, overlapStaged>>
    /\ UNCHANGED <<callVars, uiVars, sessionVars, fileVars, mergeVars, scriptVars>>

\* the script is written: rmtree(temp_dir), set_progress(100),
\* console.enable_restart(restart_now)
WorkerReady ==
    /\ \E w \in 1..MaxInvocations :
         /\ workers[w] = "scripting"
         /\ workers' = [workers EXCEPT ![w] = "ready"]
    /\ UNCHANGED <<invocations, overlapStaged>>
    /\ UNCHANGED <<callVars, uiVars, sessionVars, fileVars, mergeVars, scriptVars>>

\* an error return or the handler: set_progress(0), showerror
WorkerGivesUp ==
    /\ \E w \in 1..MaxInvocations :
         /\ workers[w] \in ActiveWorker
         /\ workers' = [workers EXCEPT ![w] = "failed"]
    /\ UNCHANGED <<invocations, overlapStaged>>
    /\ UNCHANGED <<callVars, uiVars, sessionVars, fileVars, mergeVars, scriptVars>>

ReentryInit ==
    /\ ReentryParked
    /\ CallsParked /\ UiParked
    /\ SessionParked /\ FilesParked /\ MergeParked /\ ScriptParked

ReentryNext ==
    \/ UpdateExeInvoked
    \/ WorkerBeginsStaging
    \/ WorkerBeginsScript
    \/ WorkerReady
    \/ WorkerGivesUp

SpecReentry == ReentryInit /\ [][ReentryNext]_vars

\* C34: update_exe has no guard against a second call: every call starts a
\* worker of its own, whatever the workers started before are doing
EveryInvocationStartsWorker ==
    Cardinality({w \in 1..MaxInvocations : workers[w] # "none"}) = invocations

\* two workers write the script at <exe>.update.bat at the same time, after
\* having written <exe>.new at the same time
TwoWorkersWriteSamePaths ==
    /\ overlapStaged
    /\ \E v, w \in 1..MaxInvocations :
         v # w /\ workers[v] = "scripting" /\ workers[w] = "scripting"

\* ------------------------------------------------------------------------
\* The retry wrappers and the class of the error
\* ------------------------------------------------------------------------

\* the first invocation among the n allowed that ends the loop when the
\* invocations for which Stops holds end it; n when there is none
FirstStop(n, Stops(_)) ==
    IF \E i \in 1..n : Stops(i)
    THEN CHOOSE i \in 1..n : Stops(i) /\ \A j \in 1..(i - 1) : ~Stops(j)
    ELSE n

\* C35 as stated: a failure of any class is retried, so that the wrapper
\* stops only at a successful invocation or after max_attempts invocations
EveryErrorClassRetried ==
    (call.fn = "retry_op" /\ ret.done) =>
        LET Succeeds(i) == call.outcomes[i] = "ok" IN
        ret.value.calls = FirstStop(call.n, Succeeds)

\* C35: a failure that is an OSError of any kind (locking, permission, disk
\* full) is retried until max_attempts invocations have been made; an
\* exception of another class leaves the wrapper at the invocation that
\* raises it
OSErrorsRetriedAlike ==
    (call.fn = "retry_op" /\ ret.done) =>
        LET EndsLoop(i) ==
                call.outcomes[i] \notin {"OSError", "PermissionError"} IN
        /\ ret.value.calls = FirstStop(call.n, EndsLoop)
        /\ ret.value.sleeps = IF call.n = 0 THEN 0 ELSE ret.value.calls - 1

\* a full disk followed by a locked file has been retried to the last of
\* three invocations
DiskFullRetried ==
    /\ call.fn = "retry_op" /\ ret.done
    /\ call.n = 3
    /\ call.outcomes[1] = "OSError"
    /\ call.outcomes[2] = "PermissionError"
    /\ call.outcomes[3] = "OSError"
    /\ ret.value.calls = 3
    /\ ret.value.result = "raise"

\* ------------------------------------------------------------------------
\* The swap script: recoverability and termination
\* ------------------------------------------------------------------------

\* C36: the script having started with the executable at its path, at every
\* step at least one of <exe> and <exe>.backup exists
ScriptKeepsAnExecutable ==
    spc # "idle" => (Exists(exe) \/ Exists(backup))

\* the live binary is at <exe>.backup only, the script waiting in a retry
\* loop
ScriptLoopsWithBackupOnly ==
    /\ spc \in {"backup_wait", "install_wait"}
    /\ ~Exists(exe) /\ backup = "old"

\* the scheduling of the script: the shell goes on to the next command as
\* long as there is one; the application process exits at some time; a
\* rename that is tried again and again succeeds at some time
ScriptFairness ==
    /\ WF_vars(ScriptNext)
    /\ WF_vars(AppExits)
    /\ SF_vars(ScriptRetryBackup /\ ~Exists(exe'))
    /\ SF_vars(ScriptRetryInstall /\ ~Exists(staged'))

SpecScriptFair == ScriptInit /\ [][ScriptNext]_vars /\ ScriptFairness

\* C37: started with the new executable staged, the script comes to its end
\* with the new executable at the original path and the application
\* restarted
ScriptEventuallyInstalls ==
    (spc = "start" /\ staged = "new")
        ~> (spc = "exited" /\ exe = "new" /\ launched)

\* ------------------------------------------------------------------------
\* What a normal return of a retry wrapper means
\* ------------------------------------------------------------------------

\* C38: a retry wrapper returns normally only when some invocation of the
\* wrapped operation has completed without error, for every max_attempts
\* from 0 on
NormalReturnMeansPerformed ==
    (call.fn = "retry_op" /\ ret.done /\ ret.value.result = "ok")
        => ret.value.performed

\* ------------------------------------------------------------------------
\* The two final notifications of a session
\* ------------------------------------------------------------------------

\* C39: enable_restart and the failure notification are never both issued in
\* one session, and no failure is reported once progress 100 was reported
NotificationsExclusive ==
    /\ ~(restartEnabled /\ failNotified)
    /\ ~(reported100 /\ failNotified)

====
